---- MODULE Spec2Model ----
(***************************************************************************)
(* WealthTrack-AI: the snapshot and income collections, the bulk-import    *)
(* merge and the derived views (Dashboard time series and breakdown, the   *)
(* pivot table over assets or income).                                     *)
(*                                                                         *)
(* Text.  A JavaScript string is a sequence of one-character strings, so   *)
(* that concatenation, split, trim, case mapping and the lexicographic     *)
(* comparison of dates are computed as the code computes them.             *)
(*                                                                         *)
(* Numbers.  Item values are integers.  A currency rate is held in         *)
(* ten-thousandths (EUR 1.05 is 10500), so a normalized value is           *)
(* value * rate in ten-thousandths of the reference unit and every sum is  *)
(* exact.  Numeric fields hold finite numbers (no NaN).                    *)
(***************************************************************************)
EXTENDS Integers, Sequences, FiniteSets, TLC

----------------------------------------------------------------------------
(* Bounds of the model *)

\* number of operations on the data (submit, delete, rename, import) explored
MaxOps == 2
\* number of distinct item names in the generated long import batches
MaxNames == 12
\* number of bulk imports explored by the view specification
MaxViewImports == 1

----------------------------------------------------------------------------
(* Generic helpers *)

Range(s) == {s[i] : i \in DOMAIN s}

RECURSIVE FoldRange(_, _, _, _, _)
\* the left fold of Op over s[lo..hi]: what a loop over the elements in
\* order computes, written by halves of the range, the value after the
\* first half being the start of the second
FoldRange(Op(_, _), acc, s, lo, hi) ==
  IF lo > hi THEN acc
  ELSE IF lo = hi THEN Op(acc, s[lo])
  ELSE LET mid == (lo + hi) \div 2
       IN CHOOSE r \in {FoldRange(Op, left, s, mid + 1, hi) :
                          left \in {FoldRange(Op, acc, s, lo, mid)}} : TRUE

\* forEach / reduce over an array, with the value carried from element to element
Fold(Op(_, _), acc, s) == FoldRange(Op, acc, s, 1, Len(s))

SumSeq(s) == Fold(LAMBDA a, b : a + b, 0, s)

Abs(n) == IF n < 0 THEN -n ELSE n

\* a JS object: a function from keys to values; obj[key] = v
Put(obj, key, v) == (key :> v) @@ obj
EmptyObject == [x \in {} |-> 0]

----------------------------------------------------------------------------
(* Text *)

\* the characters of the model, in UTF-16 code order
Alphabet ==
  << "\t", "\n", " ", "$", "(", ")", ",", "-", ".",
     "0", "1", "2", "3", "4", "5", "6", "7", "8", "9", ":",
     "A", "B", "C", "D", "E", "F", "G", "H", "I", "J", "K", "L", "M",
     "N", "O", "P", "Q", "R", "S", "T", "U", "V", "W", "X", "Y", "Z",
     "a", "b", "c", "d", "e", "f", "g", "h", "i", "j", "k", "l", "m",
     "n", "o", "p", "q", "r", "s", "t", "u", "v", "w", "x", "y", "z" >>

\* position of a character in code order
CodeOf == [c \in Range(Alphabet) |-> CHOOSE i \in DOMAIN Alphabet : Alphabet[i] = c]
Code(c) == CodeOf[c]

RECURSIVE StrLess(_, _)
\* a < b on JS strings: code-unit lexicographic order
StrLess(a, b) ==
  IF b = <<>> THEN FALSE
  ELSE IF a = <<>> THEN TRUE
  ELSE IF Code(Head(a)) < Code(Head(b)) THEN TRUE
  ELSE IF Code(Head(a)) > Code(Head(b)) THEN FALSE
  ELSE StrLess(Tail(a), Tail(b))

UpperOf(c) ==
  IF Code(c) >= Code("a") /\ Code(c) <= Code("z")
  THEN Alphabet[Code(c) - Code("a") + Code("A")]
  ELSE c

\* String.prototype.toUpperCase
ToUpperCase(s) == [i \in DOMAIN s |-> UpperOf(s[i])]

LowerOf(c) ==
  IF Code(c) >= Code("A") /\ Code(c) <= Code("Z")
  THEN Alphabet[Code(c) - Code("A") + Code("a")]
  ELSE c

\* String.prototype.toLowerCase
ToLowerCase(s) == [i \in DOMAIN s |-> LowerOf(s[i])]

\* s.includes(c) for a single character c
Includes(s, c) == \E i \in DOMAIN s : s[i] = c

\* s.split(d) for a single character d: the pieces between its occurrences
Split(s, d) ==
  LET at == {i \in DOMAIN s : s[i] = d}
      n == Cardinality(at)
      pos(k) == IF k = 0 THEN 0
                ELSE IF k = n + 1 THEN Len(s) + 1
                ELSE CHOOSE p \in at : Cardinality({q \in at : q < p}) = k - 1
  IN [k \in 1..(n + 1) |-> SubSeq(s, pos(k - 1) + 1, pos(k) - 1)]

\* pieces.join(d)
Join(pieces, d) ==
  Fold(LAMBDA text, piece : text \o d \o piece, IF pieces = <<>> THEN <<>> ELSE pieces[1],
       SubSeq(pieces, 2, Len(pieces)))

\* s.replace(/,/g, ' ')
ReplaceCommas(s) == [i \in DOMAIN s |-> IF s[i] = "," THEN " " ELSE s[i]]

\* the white space of the alphabet
WhiteSpace == {" ", "\t", "\n"}

RECURSIVE TrimStart(_)
TrimStart(s) == IF s # <<>> /\ Head(s) \in WhiteSpace THEN TrimStart(Tail(s)) ELSE s

RECURSIVE TrimEnd(_)
TrimEnd(s) ==
  IF s # <<>> /\ s[Len(s)] \in WhiteSpace THEN TrimEnd(SubSeq(s, 1, Len(s) - 1)) ELSE s

\* String.prototype.trim
Trim(s) == TrimEnd(TrimStart(s))

\* the literal 'All' of the filter selects, and the unset month ''
All == <<"A", "l", "l">>
NoMonth == <<>>

Digit(n) == Alphabet[Code("0") + n]
Pad2(n) == <<Digit(n \div 10), Digit(n % 10)>>
Pad4(n) == <<Digit(n \div 1000), Digit((n \div 100) % 10), Digit((n \div 10) % 10), Digit(n % 10)>>

\* toISOString().split('T')[0] of the calendar day y-m-d
ISODate(y, m, d) == Pad4(y) \o <<"-">> \o Pad2(m) \o <<"-">> \o Pad2(d)

\* s.date.substring(0, 7)
MonthOf(date) == SubSeq(date, 1, IF Len(date) < 7 THEN Len(date) ELSE 7)

----------------------------------------------------------------------------
(* Currency normalizer *)

USD == <<"U", "S", "D">>
EUR == <<"E", "U", "R">>

\* the static table; 0 stands for "no entry" (undefined)
RATES(code) ==
  CASE code = <<"U", "S", "D">> -> 10000
    [] code = <<"E", "U", "R">> -> 10500
    [] code = <<"G", "B", "P">> -> 12500
    [] code = <<"C", "A", "D">> -> 7400
    [] code = <<"A", "U", "D">> -> 6500
    [] code = <<"C", "N", "Y">> -> 1400
    [] code = <<"J", "P", "Y">> -> 67
    [] code = <<"S", "G", "D">> -> 7300
    [] code = <<"I", "N", "R">> -> 120
    [] OTHER -> 0

\* the rate 1, in ten-thousandths
One == 10000

\* the lookup without toUpperCase()
Rate_CaseSensitive(currency) ==
  LET r == RATES(currency) IN IF r = 0 THEN One ELSE r

\* RATES[currency?.toUpperCase()] || 1
Rate(currency) ==
  LET r == RATES(ToUpperCase(currency)) IN IF r = 0 THEN One ELSE r

\* item.value * rate
Normalized(item) == item.value * Rate(item.currency)

----------------------------------------------------------------------------
(* Dashboard: time series (chartData) *)

\* JS values held by a time-series record: a number, or a string that is a
\* date followed by the numbers that "+" has appended to it
Num(n) == [t |-> "num", n |-> n, s |-> <<>>, app |-> <<>>]
Str(s, app) == [t |-> "str", n |-> 0, s |-> s, app |-> app]

KeyDate == <<"d", "a", "t", "e">>
KeyTotal == <<"t", "o", "t", "a", "l">>

\* (obj[key] || 0)
OrZero(obj, key) ==
  IF key \notin DOMAIN obj THEN Num(0)
  ELSE IF obj[key].t = "num" THEN obj[key]
  ELSE IF obj[key].s = <<>> /\ obj[key].app = <<>> THEN Num(0)
  ELSE obj[key]

\* x + normalizedValue: numeric addition, or concatenation onto a string
Plus(x, nv) ==
  IF x.t = "num" THEN Num(x.n + nv) ELSE Str(x.s, Append(x.app, nv))

\* the tests with the upper bound set at the 30th
PassesMemberAndRange_Day30(s, fm, fs, fe) ==
  /\ ~(fm # All /\ s.familyMember # fm)
  /\ ~(fs # NoMonth /\ StrLess(s.date, fs \o <<"-", "0", "1">>))
  /\ ~(fe # NoMonth /\ StrLess(fe \o <<"-", "3", "0">>, s.date))

\* the member and month-range tests at the head of the forEach and filter callbacks
PassesMemberAndRange(s, fm, fs, fe) ==
  /\ ~(fm # All /\ s.familyMember # fm)
  /\ ~(fs # NoMonth /\ StrLess(s.date, fs \o <<"-", "0", "1">>))
  /\ ~(fe # NoMonth /\ StrLess(fe \o <<"-", "3", "1">>, s.date))

\* one iteration of s.items.forEach
AccumulateItem(rec, item, fc) ==
  LET key == IF fc = All THEN item.category ELSE item.name IN
  IF fc = All \/ item.category = fc
  THEN LET nv == Normalized(item)
           r1 == Put(rec, key, Plus(OrZero(rec, key), nv))
       IN Put(r1, KeyTotal, Plus(r1[KeyTotal], nv))
  ELSE rec

\* s.items.forEach(item => ..) on the record of the snapshot's date
AccumulateItems(rec, items, fc) ==
  Fold(LAMBDA r, item : AccumulateItem(r, item, fc), rec, items)

\* index of the entry with the given key in an insertion-ordered object, 0 if none
IndexOfKey(entries, key) ==
  IF \E i \in DOMAIN entries : entries[i].key = key
  THEN CHOOSE i \in DOMAIN entries : entries[i].key = key
  ELSE 0

\* one iteration of snapshots.forEach over groupedByDate, an object kept as
\* its entries in insertion order: <<[key |-> date, rec |-> record]>>
GroupSnapshot(grouped, s, fc, fm, fs, fe) ==
  IF ~PassesMemberAndRange(s, fm, fs, fe) THEN grouped
  ELSE
    LET at == IndexOfKey(grouped, s.date)
        fresh == Put(Put(EmptyObject, KeyDate, Str(s.date, <<>>)), KeyTotal, Num(0))
        g1 == IF at = 0 THEN Append(grouped, [key |-> s.date, rec |-> fresh]) ELSE grouped
        i == IF at = 0 THEN Len(g1) ELSE at
    IN [g1 EXCEPT ![i].rec = AccumulateItems(g1[i].rec, s.items, fc)]

GroupByDate(grouped, snaps, fc, fm, fs, fe) ==
  Fold(LAMBDA g, s : GroupSnapshot(g, s, fc, fm, fs, fe), grouped, snaps)

groupedByDate(snaps, fc, fm, fs, fe) == GroupByDate(<<>>, snaps, fc, fm, fs, fe)

\* the records of the time series, Object.values(groupedByDate), before the sort
chartRecords(snaps, fc, fm, fs, fe) ==
  LET g == groupedByDate(snaps, fc, fm, fs, fe) IN [i \in DOMAIN g |-> g[i].rec]

\* the number a character stands for when it is a decimal digit, -1 otherwise
DigitValue(c) ==
  IF Code(c) >= Code("0") /\ Code(c) <= Code("9") THEN Code(c) - Code("0") ELSE -1

\* new Date(v).getTime() of a record's date field, in days; -1 stands for NaN
\* (a date onto which a number was concatenated is not a date any more)
GetTime(v) ==
  LET d == v.s IN
  IF v.t # "str" \/ v.app # <<>> \/ Len(d) # 10 THEN -1
  ELSE IF d[5] # "-" \/ d[8] # "-" THEN -1
  ELSE IF \E i \in {1, 2, 3, 4, 6, 7, 9, 10} : DigitValue(d[i]) < 0 THEN -1
  ELSE LET y == DigitValue(d[1]) * 1000 + DigitValue(d[2]) * 100 + DigitValue(d[3]) * 10 + DigitValue(d[4])
           m == DigitValue(d[6]) * 10 + DigitValue(d[7])
           dd == DigitValue(d[9]) * 10 + DigitValue(d[10])
       IN IF m < 1 \/ m > 12 \/ dd < 1 \/ dd > 31 THEN -1
          ELSE (y * 12 + (m - 1)) * 31 + (dd - 1)

\* the comparator (a, b) => getTime(a.date) - getTime(b.date) is negative;
\* a NaN difference counts as 0
TimeBefore(a, b) ==
  LET ta == GetTime(a[KeyDate])
      tb == GetTime(b[KeyDate])
  IN ta >= 0 /\ tb >= 0 /\ ta < tb

\* x placed behind every record that the comparator does not put after it
InsertByTime(sorted, x) ==
  LET later == {i \in DOMAIN sorted : TimeBefore(x, sorted[i])}
      p == IF later = {} THEN Len(sorted) + 1 ELSE CHOOSE i \in later : \A j \in later : i <= j
  IN SubSeq(sorted, 1, p - 1) \o <<x>> \o SubSeq(sorted, p, Len(sorted))

\* Array.prototype.sort, stable
SortByTime(recs) == Fold(InsertByTime, <<>>, recs)

\* chartData: the records sorted by date
chartData(snaps, fc, fm, fs, fe) == SortByTime(chartRecords(snaps, fc, fm, fs, fe))

----------------------------------------------------------------------------
(* Dashboard: breakdown (pieDataInfo) *)

\* the size of the head kept before the remainder is collapsed
TopN == 10

Others == <<"O", "t", "h", "e", "r", "s">>
NoDate == <<"n", "u", "l", "l">>

\* the date of the first snapshot instead of the greatest
MaxDate_First(dates) == dates[1]

\* the last element of the default-sorted array of dates
MaxDate(dates) == Fold(LAMBDA m, d : IF StrLess(m, d) THEN d ELSE m, dates[1], dates)

\* flatMap(s => s.items)
FlatItems(snaps) == Fold(LAMBDA flat, s : flat \o s.items, <<>>, snaps)

\* item.name.trim() || item.category
PieName(item) == IF Trim(item.name) # <<>> THEN Trim(item.name) ELSE item.category

\* a variant that stores the last value of a name instead of adding it
AggregateItem_Overwrite(agg, item) ==
  LET name == PieName(item)
      at == IF \E i \in DOMAIN agg : agg[i].name = name
            THEN CHOOSE i \in DOMAIN agg : agg[i].name = name
            ELSE 0
  IN IF at = 0
     THEN Append(agg, [name |-> name, value |-> Normalized(item)])
     ELSE [agg EXCEPT ![at].value = Normalized(item)]

\* aggByName[name] = (aggByName[name] || 0) + normalizedValue, aggByName
\* kept as its entries in insertion order: <<[name |-> .., value |-> ..]>>
AggregateItem(agg, item) ==
  LET name == PieName(item)
      at == IF \E i \in DOMAIN agg : agg[i].name = name
            THEN CHOOSE i \in DOMAIN agg : agg[i].name = name
            ELSE 0
  IN IF at = 0
     THEN Append(agg, [name |-> name, value |-> Normalized(item)])
     ELSE [agg EXCEPT ![at].value = @ + Normalized(item)]

AggregateByName(agg, items) == Fold(AggregateItem, agg, items)

\* x placed behind every entry whose value is not smaller
InsertByValueDesc(sorted, x) ==
  LET smaller == {i \in DOMAIN sorted : x.value > sorted[i].value}
      p == IF smaller = {} THEN Len(sorted) + 1
           ELSE CHOOSE i \in smaller : \A j \in smaller : i <= j
  IN SubSeq(sorted, 1, p - 1) \o <<x>> \o SubSeq(sorted, p, Len(sorted))

\* sort((a, b) => b.value - a.value), stable
SortByValueDesc(entries) == Fold(InsertByValueDesc, <<>>, entries)

\* rawData.filter(d => d.value > 0).map(..).sort(..)
AssetsOf(rawData) ==
  SortByValueDesc(
    [i \in DOMAIN SelectSeq(rawData, LAMBDA d : d.value > 0) |->
       LET d == SelectSeq(rawData, LAMBDA e : e.value > 0)[i]
       IN [name |-> d.name, value |-> d.value, originalValue |-> d.value]])

\* liabilities that keep the sign of their value
LiabilitiesOf_Signed(rawData) ==
  SortByValueDesc(
    [i \in DOMAIN SelectSeq(rawData, LAMBDA d : d.value < 0) |->
       LET d == SelectSeq(rawData, LAMBDA e : e.value < 0)[i]
       IN [name |-> d.name, value |-> d.value, originalValue |-> d.value]])

\* rawData.filter(d => d.value < 0).map(..).sort(..)
LiabilitiesOf(rawData) ==
  SortByValueDesc(
    [i \in DOMAIN SelectSeq(rawData, LAMBDA d : d.value < 0) |->
       LET d == SelectSeq(rawData, LAMBDA e : e.value < 0)[i]
       IN [name |-> d.name, value |-> Abs(d.value), originalValue |-> d.value]])

\* step F: Top 10 + Others
\* a variant whose remainder starts one entry late
CollapseTail_DropsOne(entries) ==
  IF Len(entries) > TopN
  THEN LET top10 == SubSeq(entries, 1, TopN)
           others == SubSeq(entries, TopN + 2, Len(entries))
           otherTotalAbs == SumSeq([i \in DOMAIN others |-> others[i].value])
           otherTotalOrig == SumSeq([i \in DOMAIN others |-> others[i].originalValue])
       IN Append(top10, [name |-> Others, value |-> otherTotalAbs, originalValue |-> otherTotalOrig])
  ELSE entries

CollapseTail(entries) ==
  IF Len(entries) > TopN
  THEN LET top10 == SubSeq(entries, 1, TopN)
           others == SubSeq(entries, TopN + 1, Len(entries))
           otherTotalAbs == SumSeq([i \in DOMAIN others |-> others[i].value])
           otherTotalOrig == SumSeq([i \in DOMAIN others |-> others[i].originalValue])
       IN Append(top10, [name |-> Others, value |-> otherTotalAbs, originalValue |-> otherTotalOrig])
  ELSE entries

\* the items of the latest date that pass the category filter
latestItems(relevantSnapshots, latestDate, fc) ==
  SelectSeq(FlatItems(SelectSeq(relevantSnapshots, LAMBDA s : s.date = latestDate)),
            LAMBDA i : fc = All \/ i.category = fc)

pieDataInfo(snaps, fc, fm, fs, fe) ==
  LET relevantSnapshots == SelectSeq(snaps, LAMBDA s : PassesMemberAndRange(s, fm, fs, fe)) IN
  IF Len(relevantSnapshots) = 0
  THEN [assets |-> <<>>, liabilities |-> <<>>, date |-> NoDate]
  ELSE
    LET latestDate == MaxDate([i \in DOMAIN relevantSnapshots |-> relevantSnapshots[i].date])
        rawData == AggregateByName(<<>>, latestItems(relevantSnapshots, latestDate, fc))
    IN [assets |-> CollapseTail(AssetsOf(rawData)),
        liabilities |-> CollapseTail(LiabilitiesOf(rawData)),
        date |-> latestDate]

----------------------------------------------------------------------------
(* MasterDatabaseView: the pivot table *)

\* filteredData for dataSource 'assets'
filteredData(snaps, fc, fm, fs, fe) ==
  SelectSeq(snaps, LAMBDA s :
    /\ PassesMemberAndRange(s, fm, fs, fe)
    /\ ~(fc # All /\ ~(\E i \in DOMAIN s.items : s.items[i].category = fc)))

\* `${name.trim()} (${category})` or `${category} (Misc)`
ColumnKey(i) ==
  IF Trim(i.name) # <<>>
  THEN Trim(i.name) \o <<" ", "(">> \o i.category \o <<")">>
  ELSE i.category \o <<" ", "(", "M", "i", "s", "c", ")">>

\* the items of the filtered snapshots that pass the category test
PivotItems(filtered, fc) ==
  SelectSeq(FlatItems(filtered), LAMBDA i : fc = All \/ i.category = fc)

\* Array.from(set).sort(): the strings of a set in code-unit order; a string
\* stands behind as many strings as are smaller than it
SortStrings(S) ==
  [k \in 1..Cardinality(S) |->
     CHOOSE x \in S : Cardinality({y \in S : StrLess(y, x)}) = k - 1]

columnHeaders(filtered, fc) ==
  LET items == PivotItems(filtered, fc)
  IN SortStrings({ColumnKey(items[k]) : k \in DOMAIN items})

\* the static table of the pivot view; 0 stands for "no entry" (undefined)
PivotRATES(code) ==
  CASE code = <<"U", "S", "D">> -> 10000
    [] code = <<"E", "U", "R">> -> 10500
    [] code = <<"G", "B", "P">> -> 12500
    [] code = <<"C", "A", "D">> -> 7400
    [] code = <<"A", "U", "D">> -> 6500
    [] code = <<"C", "N", "Y">> -> 1400
    [] code = <<"J", "P", "Y">> -> 67
    [] code = <<"S", "G", "D">> -> 7300
    [] code = <<"I", "N", "R">> -> 120
    [] OTHER -> 0

\* RATES[i.currency?.toUpperCase()] || 1, then i.value * rate
PivotNormalized(i) ==
  LET r == PivotRATES(ToUpperCase(i.currency))
  IN i.value * (IF r = 0 THEN One ELSE r)

\* rowData[key] = (rowData[key] || 0) + val; rowTotal += val
AddToRow(row, i) ==
  LET key == ColumnKey(i)
      val == PivotNormalized(i)
      old == IF key \in DOMAIN row.values THEN row.values[key] ELSE 0
  IN [row EXCEPT !.values = Put(row.values, key, old + val), !.total = @ + val]

\* the inner forEach of rows
RowOf(row, items) == Fold(AddToRow, row, items)

rows(filtered, fc) ==
  LET dates == SortStrings({filtered[k].date : k \in DOMAIN filtered})
  IN [r \in DOMAIN dates |->
        LET daySnapshots == SelectSeq(filtered, LAMBDA s : s.date = dates[r])
        IN RowOf([date |-> dates[r], values |-> EmptyObject, total |-> 0],
                 PivotItems(daySnapshots, fc))]

\* filteredData for dataSource 'income'
filteredIncome(records, fc, fm, fs, fe) ==
  SelectSeq(records, LAMBDA r :
    /\ PassesMemberAndRange(r, fm, fs, fe)
    /\ ~(fc # All /\ r.category # fc))

\* columnHeaders for dataSource 'income'
incomeColumnHeaders(filtered) ==
  SortStrings({ColumnKey(filtered[k]) : k \in DOMAIN filtered})

\* const val = r.value: the value as it stands, whatever the currency of the
\* record (1 is 10000 ten-thousandths)
AddRecordToRow(row, r) ==
  LET key == ColumnKey(r)
      val == r.value * One
      old == IF key \in DOMAIN row.values THEN row.values[key] ELSE 0
  IN [row EXCEPT !.values = Put(row.values, key, old + val), !.total = @ + val]

\* rows for dataSource 'income'
incomeRows(filtered) ==
  LET dates == SortStrings({filtered[k].date : k \in DOMAIN filtered})
  IN [r \in DOMAIN dates |->
        Fold(AddRecordToRow, [date |-> dates[r], values |-> EmptyObject, total |-> 0],
             SelectSeq(filtered, LAMBDA x : x.date = dates[r]))]

\* the text of a table cell: val ? val.toLocaleString(..) : '-'
RenderCell(row, col) ==
  IF col \in DOMAIN row.values /\ row.values[col] # 0
  THEN [text |-> "number", value |-> row.values[col]]
  ELSE [text |-> "-", value |-> 0]

----------------------------------------------------------------------------
(* HistoryView: the list of snapshots *)

\* x placed behind every snapshot that the comparator
\* (a, b) => getTime(b.date) - getTime(a.date) does not put after it
InsertByDateDesc(sorted, x) ==
  LET tx == GetTime(Str(x.date, <<>>))
      earlier == {i \in DOMAIN sorted :
                    LET ti == GetTime(Str(sorted[i].date, <<>>))
                    IN tx >= 0 /\ ti >= 0 /\ ti < tx}
      p == IF earlier = {} THEN Len(sorted) + 1
           ELSE CHOOSE i \in earlier : \A j \in earlier : i <= j
  IN SubSeq(sorted, 1, p - 1) \o <<x>> \o SubSeq(sorted, p, Len(sorted))

\* [...snapshots].sort(..): latest date first, stable
sortedSnapshots(snaps) == Fold(InsertByDateDesc, <<>>, snaps)

\* the callback without its second early return
HistoryAccepts_IgnoresCategory(s, fc, fm, fs, fe) ==
  IF fm # All /\ s.familyMember # fm THEN FALSE
  ELSE IF fs # NoMonth /\ StrLess(s.date, fs \o <<"-", "0", "1">>) THEN FALSE
  ELSE IF fe # NoMonth /\ StrLess(fe \o <<"-", "3", "1">>, s.date) THEN FALSE
  ELSE TRUE

\* the filter callback of filteredSnapshots: its four early returns
HistoryAccepts(s, fc, fm, fs, fe) ==
  IF fm # All /\ s.familyMember # fm THEN FALSE
  ELSE IF fc # All /\ ~(\E i \in DOMAIN s.items : s.items[i].category = fc) THEN FALSE
  ELSE IF fs # NoMonth /\ StrLess(s.date, fs \o <<"-", "0", "1">>) THEN FALSE
  ELSE IF fe # NoMonth /\ StrLess(fe \o <<"-", "3", "1">>, s.date) THEN FALSE
  ELSE TRUE

filteredSnapshots(snaps, fc, fm, fs, fe) ==
  SelectSeq(sortedSnapshots(snaps), LAMBDA s : HistoryAccepts(s, fc, fm, fs, fe))

\* the amounts of a card: snapshot.totalValue.toLocaleString(..) in its head,
\* item.value.toLocaleString() followed by item.currency in its rows
HistoryTotal(s) == s.totalValue
HistoryItemAmount(i) == [amount |-> i.value, currency |-> i.currency]

----------------------------------------------------------------------------
(* App: the snapshot collection and its handlers *)

(* A snapshot is [id, date, familyMember, items, totalValue, note]; an item  *)
(* is [category, name, value, currency].  The id and the tags of an item are *)
(* written but never read by the code modelled here and are left out.        *)

DEFAULT_CATEGORIES ==
  << <<"B", "a", "n", "k">>, <<"S", "t", "o", "c", "k">>,
     <<"R", "e", "a", "l", " ", "E", "s", "t", "a", "t", "e">>,
     <<"C", "r", "y", "p", "t", "o">>, <<"B", "o", "n", "d">>, <<"L", "o", "a", "n">>,
     <<"V", "e", "h", "i", "c", "l", "e">>, <<"C", "a", "s", "h">>,
     <<"O", "t", "h", "e", "r">> >>
DEFAULT_INCOME_CATEGORIES ==
  << <<"D", "i", "v", "i", "d", "e", "n", "d">>, <<"I", "n", "t", "e", "r", "e", "s", "t">>,
     <<"R", "e", "n", "t">>, <<"S", "a", "l", "a", "r", "y">>, <<"B", "o", "n", "u", "s">>,
     <<"C", "a", "p", "i", "t", "a", "l", " ", "G", "a", "i", "n", "s">>,
     <<"O", "t", "h", "e", "r">> >>
DEFAULT_MEMBERS == << <<"M", "e">> >>

\* a uuid: an id that no snapshot of the collection carries
FreshId(snaps) ==
  CHOOSE n \in 1..(Len(snaps) + 1) :
    /\ \A i \in DOMAIN snaps : snaps[i].id # n
    /\ \A m \in 1..(n - 1) : \E i \in DOMAIN snaps : snaps[i].id = m

\* Array.from(new Set(list)) after add() of every value of more, in order
AddAllNew(list, more) ==
  Fold(LAMBDA l, v : IF v \in Range(l) THEN l ELSE Append(l, v), list, more)

\* a registry rebuilt from the staged values alone
RegistryAfterImport_DropsOld(registry, values) ==
  AddAllNew(<<>>, SelectSeq(values, LAMBDA v : v # <<>>))

\* the registry after the first forEach of handleBulkImport: values is the
\* trimmed category (or member) of every staged row
RegistryAfterImport(registry, values) ==
  LET nonBlank == SelectSeq(values, LAMBDA v : v # <<>>)
      changed == \E i \in DOMAIN nonBlank : nonBlank[i] \notin Range(registry)
  IN IF changed THEN AddAllNew(AddAllNew(<<>>, registry), nonBlank) ELSE registry

\* `${item.date}::${item.familyMember}`
GroupKey(item) == item.date \o <<":", ":">> \o item.familyMember

RECURSIVE SplitKey(_, _, _)
\* key.split('::'): the pieces between the non-overlapping occurrences of '::',
\* found from the left
SplitKey(rest, piece, out) ==
  IF rest = <<>> THEN Append(out, piece)
  ELSE IF Len(rest) >= 2 /\ rest[1] = ":" /\ rest[2] = ":"
  THEN SplitKey(SubSeq(rest, 3, Len(rest)), <<>>, Append(out, piece))
  ELSE SplitKey(Tail(rest), Append(piece, Head(rest)), out)

\* cardGroups of the history view for dataSource 'income': the filtered
\* records grouped under `${r.date}::${r.familyMember}`, each group with the
\* date and the member that key.split('::') gives back
cardGroups(filtered) ==
  { LET parts == SplitKey(key, <<>>, <<>>)
    IN [id |-> key, date |-> parts[1], familyMember |-> parts[2],
        items |-> SelectSeq(filtered, LAMBDA r : GroupKey(r) = key)]
    : key \in {GroupKey(filtered[k]) : k \in DOMAIN filtered} }

\* handleDeleteIncomeGroup(date): prev.filter(r => r.date !== date); the
\* member the card passes as second argument is not a parameter of it
DeleteIncomeGroup(records, date, familyMember) ==
  SelectSeq(records, LAMBDA r : r.date # date)

\* Object.keys(groupedData): the keys in the order of their first row
GroupKeys(importItems, keys) ==
  Fold(LAMBDA ks, i : IF GroupKey(i) \in Range(ks) THEN ks ELSE Append(ks, GroupKey(i)),
       keys, importItems)

\* items.map(i => ({id, category, name, value, currency, tags}))
AssetOf(i) == [category |-> i.category, name |-> i.name, value |-> i.value, currency |-> i.currency]

NoteUpdated == "Updated via Bulk Import"
NoteImported == "Imported via Bulk Entry"

\* one iteration of Object.keys(groupedData).forEach
MergeGroup(newSnapshots, importItems, key) ==
  LET parts == SplitKey(key, <<>>, <<>>)
      date == parts[1]
      member == parts[2]
      items == SelectSeq(importItems, LAMBDA i : GroupKey(i) = key)
      found == {x \in DOMAIN newSnapshots :
                  newSnapshots[x].date = date /\ newSnapshots[x].familyMember = member}
      newAssets == [x \in DOMAIN items |-> AssetOf(items[x])]
      totalValue == SumSeq([x \in DOMAIN newAssets |-> newAssets[x].value])
  IN IF found # {}
     THEN LET existingIndex == CHOOSE x \in found : \A y \in found : x <= y
          IN [newSnapshots EXCEPT ![existingIndex] =
                [@ EXCEPT !.items = newAssets, !.totalValue = totalValue, !.note = NoteUpdated]]
     ELSE Append(newSnapshots,
                 [id |-> FreshId(newSnapshots), date |-> date, familyMember |-> member,
                  items |-> newAssets, totalValue |-> totalValue, note |-> NoteImported])

\* Object.keys(groupedData).forEach
MergeGroups(newSnapshots, importItems, keys) ==
  Fold(LAMBDA ns, key : MergeGroup(ns, importItems, key), newSnapshots, keys)

\* handleBulkImport: the collection and the two registries it sets
handleBulkImport(snaps, cats, members, importItems) ==
  [snapshots |-> MergeGroups(snaps, importItems, GroupKeys(importItems, <<>>)),
   categories |-> RegistryAfterImport(cats,
                    [x \in DOMAIN importItems |-> Trim(importItems[x].category)]),
   familyMembers |-> RegistryAfterImport(members,
                    [x \in DOMAIN importItems |-> Trim(importItems[x].familyMember)])]

RECURSIVE Digits(_)
Digits(n) == IF n < 10 THEN <<Digit(n)>> ELSE Digits(n \div 10) \o <<Digit(n % 10)>>

\* the text of a number inside a template literal
NumberString(n) == IF n < 0 THEN <<"-">> \o Digits(-n) ELSE Digits(n)

\* `${r.date}-${r.category}-${r.name}-${r.value}`
Signature(r) ==
  r.date \o <<"-">> \o r.category \o <<"-">> \o r.name \o <<"-">> \o NumberString(r.value)

\* handleImportIncome: the income collection and the registry it sets; an
\* income record is [date, category, name, value, familyMember, currency]
handleImportIncome(records, incomeCats, items) ==
  LET existingSignatures == {Signature(records[x]) : x \in DOMAIN records}
      newItems == SelectSeq(items, LAMBDA r : Signature(r) \notin existingSignatures)
  IN [incomeRecords |-> records \o newItems,
      incomeCategories |-> RegistryAfterImport(incomeCats,
                             [x \in DOMAIN items |-> Trim(items[x].category)])]

----------------------------------------------------------------------------
(* SnapshotForm and the remaining App handlers, as functions of the state *)

\* SnapshotForm.handleSubmit: the snapshot handed to onSave; items is the
\* form's item list, existing is <<>> or <<existingSnapshot>>
SubmittedSnapshot(existing, freshId, date, member, items, note) ==
  [id |-> IF existing # <<>> THEN existing[1].id ELSE freshId,
   date |-> date,
   familyMember |-> member,
   items |-> SelectSeq(items, LAMBDA i : Trim(i.name) # <<>>),
   note |-> note,
   totalValue |-> SumSeq([x \in DOMAIN items |-> items[x].value])]

\* handleSaveSnapshot
SavedSnapshots(snaps, editing, snapshot) ==
  IF editing # <<>>
  THEN [x \in DOMAIN snaps |-> IF snaps[x].id = snapshot.id THEN snapshot ELSE snaps[x]]
  ELSE Append(snaps, snapshot)

\* handleRenameCategory, on the collection
RenamedCategory(snaps, oldName, newName) ==
  [x \in DOMAIN snaps |->
     [snaps[x] EXCEPT !.items =
        [y \in DOMAIN @ |-> IF @[y].category = oldName
                            THEN [@[y] EXCEPT !.category = newName] ELSE @[y]]]]

\* handleRenameMember, on the collection
RenamedMember(snaps, oldName, newName) ==
  [x \in DOMAIN snaps |->
     [snaps[x] EXCEPT !.familyMember = IF @ = oldName THEN newName ELSE @]]

\* list.map(c => c === oldName ? newName : c)
RenamedIn(list, oldName, newName) ==
  [x \in DOMAIN list |-> IF list[x] = oldName THEN newName ELSE list[x]]

\* the filter options derived from the data (usedMembers, usedCategories, usedMonths)
usedMembers(snaps) ==
  {snaps[x].familyMember : x \in DOMAIN snaps} \ {<<>>}
usedCategories(snaps) ==
  {i.category : i \in Range(FlatItems(snaps))} \ {c \in {i.category : i \in Range(FlatItems(snaps))} : Trim(c) = <<>>}
usedMonths(snaps) ==
  {MonthOf(snaps[x].date) : x \in {y \in DOMAIN snaps : snaps[y].date # <<>>}}

\* the same options of the pivot view for dataSource 'income'
incomeMembers(records) ==
  {records[x].familyMember : x \in DOMAIN records} \ {<<>>}
incomeCategoriesUsed(records) ==
  {records[x].category : x \in DOMAIN records} \ {<<>>}
incomeMonths(records) ==
  {MonthOf(records[x].date) : x \in {y \in DOMAIN records : records[y].date # <<>>}}

\* handleRenameIncomeCategory, on the income collection
RenamedIncomeCategory(records, oldName, newName) ==
  [x \in DOMAIN records |->
     IF records[x].category = oldName THEN [records[x] EXCEPT !.category = newName]
     ELSE records[x]]

\* handleAddCategory, handleAddIncomeCategory and handleAddMember, on the registry
AddedTo(list, name) == IF name \in Range(list) THEN list ELSE Append(list, name)

\* what handleClearAllData sets
ClearedData ==
  [snapshots |-> <<>>, incomeRecords |-> <<>>, categories |-> DEFAULT_CATEGORIES,
   incomeCategories |-> DEFAULT_INCOME_CATEGORIES, familyMembers |-> DEFAULT_MEMBERS]

\* a delete-all that does not wait for the answer
AfterDeleteAll_NoConfirm(confirmed, data) == ClearedData

\* handleDeleteAll: onClearAllData() when window.confirm returned true
AfterDeleteAll(confirmed, data) == IF confirmed THEN ClearedData ELSE data

----------------------------------------------------------------------------
(* Dashboard: the data summary of the AI commentary (handleAnalyze,          *)
(* analyzeFinancialData)                                                     *)

\* s.includes(sub)
IncludesText(s, sub) ==
  \E k \in 0..(Len(s) - Len(sub)) : SubSeq(s, k + 1, k + Len(sub)) = sub

\* the number of snapshots the summary keeps
SummarySize == 10

\* list.slice(-n)
LastN(list, n) ==
  IF Len(list) <= n THEN list ELSE SubSeq(list, Len(list) - n + 1, Len(list))

\* `${i.category}-${i.name}: ${i.value}`
BreakdownLine(i) ==
  i.category \o <<"-">> \o i.name \o <<":", " ">> \o NumberString(i.value)

\* handleAnalyze: the snapshots handed to analyzeFinancialData
analysedSnapshots(snaps, fm) ==
  IF fm = All THEN snaps ELSE SelectSeq(snaps, LAMBDA s : s.familyMember = fm)

\* analyzeFinancialData: the summary put into the prompt; target is the
\* selected category, <<>> for undefined
summaryOf(snaps, target) ==
  LastN([x \in DOMAIN snaps |->
           [date |-> snaps[x].date,
            total |-> snaps[x].totalValue,
            breakdown |->
              LET kept == SelectSeq(snaps[x].items,
                            LAMBDA i : \/ target = <<>>
                                       \/ i.category = target
                                       \/ IncludesText(i.name, target))
              IN [y \in DOMAIN kept |-> BreakdownLine(kept[y])]]],
        SummarySize)

----------------------------------------------------------------------------
(* The CSV export (handleExportData) *)

\* s || fallback
OrText(s, fallback) == IF s = <<>> THEN fallback ELSE s

\* ['Date', 'Category', 'Name', 'Value', 'Family Member', 'Currency'].join(',')
CsvHeader ==
  Join(<< <<"D", "a", "t", "e">>, <<"C", "a", "t", "e", "g", "o", "r", "y">>,
          <<"N", "a", "m", "e">>, <<"V", "a", "l", "u", "e">>,
          <<"F", "a", "m", "i", "l", "y", " ", "M", "e", "m", "b", "e", "r">>,
          <<"C", "u", "r", "r", "e", "n", "c", "y">> >>, <<",">>)

\* one line of the export: date, category, name, value, member and currency
\* of an item of a snapshot, or of an income record
CsvRow(date, category, name, value, familyMember, currency) ==
  Join(<< date, ReplaceCommas(category), ReplaceCommas(name), NumberString(value),
          ReplaceCommas(OrText(familyMember, <<"M", "e">>)),
          OrText(currency, <<"U", "S", "D">>) >>, <<",">>)

\* snapshots.flatMap(s => s.items.map(i => [...].join(',')))
assetRows(snaps) ==
  Fold(LAMBDA out, s :
         out \o [y \in DOMAIN s.items |->
                   CsvRow(s.date, s.items[y].category, s.items[y].name, s.items[y].value,
                          s.familyMember, s.items[y].currency)],
       <<>>, snaps)

\* incomeRecords.map(r => [...].join(','))
incomeCsvRows(records) ==
  [x \in DOMAIN records |->
     CsvRow(records[x].date, records[x].category, records[x].name, records[x].value,
            records[x].familyMember, records[x].currency)]

\* [header.join(','), ...rows].join('\n')
CsvOf(csvRows) == Join(<<CsvHeader>> \o csvRows, <<"\n">>)

\* the files of one click on Export: the asset file when there are snapshots,
\* the income file when there are income records
exportedFiles(snaps, records) ==
  (IF snaps # <<>>
   THEN << [file |-> "Asset_Snapshot", content |-> CsvOf(assetRows(snaps))] >> ELSE <<>>)
  \o (IF records # <<>>
      THEN << [file |-> "Investment_Income", content |-> CsvOf(incomeCsvRows(records))] >>
      ELSE <<>>)

----------------------------------------------------------------------------
(* The bulk parser (handleParse).  The texts of the model hold whole       *)
(* numbers, and dates that are either of the date-only form YYYY-MM-DD or  *)
(* hold no digit at all.                                                   *)

\* the decimal digits at the head of t
LeadingDigits(t) ==
  LET stops == {i \in DOMAIN t : DigitValue(t[i]) < 0}
      n == IF stops = {} THEN Len(t)
           ELSE (CHOOSE i \in stops : \A j \in stops : i <= j) - 1
  IN SubSeq(t, 1, n)

DecimalValue(digits) == Fold(LAMBDA v, c : 10 * v + DigitValue(c), 0, digits)

\* valueStr.replace(/[^0-9.-]/g, '')
StripNonNumeric(s) == SelectSeq(s, LAMBDA c : DigitValue(c) >= 0 \/ c = "." \/ c = "-")

\* parseFloat that yields 0 where no number is read
ParseFloat_ZeroForNaN(s) ==
  LET neg == s # <<>> /\ s[1] = "-"
      body == IF neg THEN Tail(s) ELSE s
      int == LeadingDigits(body)
  IN [nan |-> FALSE, n |-> (IF neg THEN -1 ELSE 1) * DecimalValue(int)]

\* parseFloat of a text of digits, '.' and '-': an optional sign, digits, and
\* digits behind a point; NaN when neither part holds a digit.  A whole
\* number is read: digits behind the point are zeros.
ParseFloat(s) ==
  LET neg == s # <<>> /\ s[1] = "-"
      body == IF neg THEN Tail(s) ELSE s
      int == LeadingDigits(body)
      rest == SubSeq(body, Len(int) + 1, Len(body))
      frac == IF rest # <<>> /\ rest[1] = "." THEN LeadingDigits(Tail(rest)) ELSE <<>>
      whole == CHOOSE v \in {DecimalValue(int)} : \A k \in DOMAIN frac : frac[k] = "0"
  IN IF int = <<>> /\ frac = <<>> THEN [nan |-> TRUE, n |-> 0]
     ELSE [nan |-> FALSE, n |-> (IF neg THEN -1 ELSE 1) * whole]

\* new Date(text) is a valid date, then toISOString().split('T')[0] of it;
\* today's date otherwise
ParsedDate(text, today) ==
  IF GetTime(Str(text, <<>>)) < 0 THEN today
  ELSE ISODate(DecimalValue(SubSeq(text, 1, 4)), DecimalValue(SubSeq(text, 6, 7)),
               DecimalValue(SubSeq(text, 9, 10)))

\* row.split(delimiter).map(c => c.trim())
ColsOf(row) ==
  LET delimiter == IF Includes(row, "\t") THEN "\t" ELSE ","
      pieces == Split(row, delimiter)
  IN [k \in DOMAIN pieces |-> Trim(pieces[k])]

\* cols[k] || fallback, the columns counted from 1
ColOr(cols, k, fallback) ==
  IF k <= Len(cols) /\ cols[k] # <<>> THEN cols[k] ELSE fallback

\* categories.find(c => c.toLowerCase() === category.toLowerCase()) || category
CanonicalCategory(cats, category) ==
  LET found == {x \in DOMAIN cats : ToLowerCase(cats[x]) = ToLowerCase(category)}
      first == CHOOSE x \in found : \A y \in found : x <= y
  IN IF found # {} /\ cats[first] # <<>> THEN cats[first] ELSE category

\* one iteration of rows.forEach for importType 'snapshot'
ParseAssetRow(parsed, row, cats, members, today) ==
  LET cols == ColsOf(row) IN
  IF Len(cols) < 3 THEN parsed
  ELSE LET date == ParsedDate(cols[1], today)
           category == ColOr(cols, 2, <<"O", "t", "h", "e", "r">>)
           name == ColOr(cols, 3, category)
           valueStr == ColOr(cols, 4, <<"0">>)
           familyMember == ColOr(cols, 5, ColOr(members, 1, <<"M", "e">>))
           currency == ColOr(cols, 6, <<"U", "S", "D">>)
           value == ParseFloat(StripNonNumeric(valueStr))
       IN IF value.nan THEN parsed
          ELSE Append(parsed,
                      [date |-> date, category |-> CanonicalCategory(cats, category),
                       name |-> name, value |-> value.n, familyMember |-> familyMember,
                       currency |-> currency])

\* one iteration of rows.forEach for importType 'income'
ParseIncomeRow(parsed, row, members, today) ==
  LET cols == ColsOf(row) IN
  IF Len(cols) < 3 THEN parsed
  ELSE LET date == ParsedDate(cols[1], today)
           category == ColOr(cols, 2, <<"I", "n", "c", "o", "m", "e">>)
           name == ColOr(cols, 3, <<"S", "o", "u", "r", "c", "e">>)
           valueStr == ColOr(cols, 4, <<"0">>)
           familyMember == ColOr(cols, 5, ColOr(members, 1, <<"M", "e">>))
           currency == ColOr(cols, 6, <<"U", "S", "D">>)
           value == ParseFloat(StripNonNumeric(valueStr))
       IN IF value.nan THEN parsed
          ELSE Append(parsed,
                      [date |-> date, category |-> category, name |-> name,
                       value |-> value.n, familyMember |-> familyMember,
                       currency |-> currency])

\* inputText.trim().split('\n')
TextRows(text) == Split(Trim(text), "\n")

\* the rows staged by handleParse for importType 'snapshot'
parsedItems(text, cats, members, today) ==
  Fold(LAMBDA parsed, row : ParseAssetRow(parsed, row, cats, members, today),
       <<>>, TextRows(text))

\* the records staged by handleParse for importType 'income'
parsedIncome(text, members, today) ==
  Fold(LAMBDA parsed, row : ParseIncomeRow(parsed, row, members, today),
       <<>>, TextRows(text))

----------------------------------------------------------------------------
(* The inputs of the model *)

Bank == DEFAULT_CATEGORIES[1]
Loan == DEFAULT_CATEGORIES[6]
Chase == <<"C", "h", "a", "s", "e">>
Car == <<"C", "a", "r">>
Zero == <<"Z", "e", "r", "o">>
Me == DEFAULT_MEMBERS[1]
Dad == <<"D", "a", "d">>
\* a family member whose name holds the separator of the grouping key
AB == <<"A", ":", ":", "B">>

Jan01 == ISODate(2024, 1, 1)
Jan31 == ISODate(2024, 1, 31)
Feb01 == ISODate(2024, 2, 1)

Item(category, name, value, currency) ==
  [category |-> category, name |-> name, value |-> value, currency |-> currency]

Row(date, category, name, value, familyMember, currency) ==
  [date |-> date, category |-> category, name |-> name, value |-> value,
   familyMember |-> familyMember, currency |-> currency]

\* the two snapshots of the example scenario
BatchExample ==
  << Row(Jan01, Bank, Chase, 1000, Me, USD),
     Row(Feb01, Bank, Chase, 1200, Me, USD) >>

\* keys 'total' and 'date', one name with both signs, a zero value, a
\* lower-case currency code and a member name holding '::'
BatchMixed ==
  << Row(Jan31, KeyTotal, KeyDate, 50, Me, USD),
     Row(Jan31, Bank, Chase, 100, Me, <<"e", "u", "r">>),
     Row(Jan31, Loan, Chase, -30, Me, USD),
     Row(Jan31, Loan, Car, -50, AB, USD),
     Row(Jan31, Bank, Zero, 0, AB, USD) >>

\* an overwrite of one key of the example by other rows; two members hold
\* the same name on one date, and the other date has a column of its own
BatchOverwrite ==
  << Row(Feb01, Bank, Chase, 70, Me, USD),
     Row(Feb01, Loan, Car, -20, Me, <<"J", "P", "Y">>),
     Row(Feb01, Bank, Chase, 40, Dad, USD),
     Row(Jan31, Bank, <<"S", "a", "v">>, 5, Dad, USD) >>

\* more names than the breakdown keeps, assets and liabilities, with ties
BatchLong ==
  [k \in 1..(2 * MaxNames) |->
     IF k <= MaxNames
     THEN Row(Feb01, Bank, <<"N">> \o Pad2(k), 10 * ((k + 1) \div 2), Me, USD)
     ELSE Row(Feb01, Loan, <<"L">> \o Pad2(k - MaxNames), -5 * ((k - MaxNames + 1) \div 2), Me, USD)]

\* staged income: one name received by two members on one date, once in
\* another currency, and a second date
IncomeBatch ==
  << Row(Jan31, DEFAULT_INCOME_CATEGORIES[1], <<"A", "c", "m", "e">>, 10, Me, USD),
     Row(Jan31, DEFAULT_INCOME_CATEGORIES[1], <<"A", "c", "m", "e">>, 20, Dad, EUR),
     Row(Feb01, DEFAULT_INCOME_CATEGORIES[2], <<"T", "-", "B", "i", "l", "l">>, 7, Me, USD) >>

\* the codes of the table, codes in other letter cases, and codes it lacks
CurrencyCodes ==
  << USD, EUR, <<"G", "B", "P">>, <<"C", "A", "D">>, <<"A", "U", "D">>, <<"C", "N", "Y">>,
     <<"J", "P", "Y">>, <<"S", "G", "D">>, <<"I", "N", "R">>,
     <<"g", "b", "p">>, <<"I", "n", "r">>, <<"C", "H", "F">>, <<"c", "h", "f">> >>

\* one item per currency code, on one date
BatchCurrencies ==
  [k \in DOMAIN CurrencyCodes |->
     Row(Jan31, Bank, <<"C">> \o Pad2(k), IF k % 2 = 0 THEN 100 ELSE -100, Me, CurrencyCodes[k])]

\* a single liability, the only item of its date: the item of the -300000
\* USD example at a tenth of its amount, which keeps the normalized value
\* (in ten-thousandths) within the integers of the checker
BatchDebt == << Row(Jan31, Loan, Car, -30000, Me, USD) >>

IncomeBatches == {IncomeBatch}
DataBatches == {BatchExample, BatchMixed, BatchOverwrite}
ViewBatches ==
  {BatchExample, BatchMixed, BatchOverwrite, BatchLong, BatchCurrencies, BatchDebt}

\* the text of a row: its six columns joined by commas
RowText(r) ==
  Join(<<r.date, r.category, r.name, NumberString(r.value), r.familyMember, r.currency>>, <<",">>)

\* the pasted text that holds the rows of a batch, one per line
TextOf(batch) == Join([k \in DOMAIN batch |-> RowText(batch[k])], <<"\n">>)

\* the day on which the text is parsed
Today == ISODate(2024, 3, 15)

\* the lines of a pasted text: no number in the value column; no date but a
\* number; a blank value column; two columns only; and a tab-delimited line
\* with a category in lower case, a blank name, a currency sign before the
\* number, and commas inside the member and the currency
RobustLines ==
  << <<"n", "o", "t", "-", "a", "-", "d", "a", "t", "e", ",", "B", "a", "n", "k",
       ",", ",", "a", "b", "c">>,
     <<"n", "o", "t", "-", "a", "-", "d", "a", "t", "e", ",", "B", "a", "n", "k",
       ",", "X", ",", "1", "0", "0">>,
     <<"2", "0", "2", "4", "-", "0", "1", "-", "3", "1", ",", "B", "a", "n", "k",
       ",", "C", "h", "a", "s", "e", ",">>,
     <<"2", "0", "2", "4", "-", "0", "1", "-", "3", "1", ",", "B", "a", "n", "k">>,
     <<"2", "0", "2", "4", "-", "0", "2", "-", "0", "1", " ", "\t", " ", "l", "o",
       "a", "n", " ", "\t", "\t", "$", "-", "1", "2", "\t", "A", ",", "B", "\t",
       "U", ",", "S">> >>
TextRobust == Join(RobustLines, <<"\n">>)

\* the lines of a pasted income text: a blank name; a tab-delimited line with
\* a blank category and a comma inside the currency
IncomeLines ==
  << <<"2", "0", "2", "4", "-", "0", "1", "-", "3", "1", ",", "D", "i", "v", "i",
       "d", "e", "n", "d", ",", ",", "1", "0", ",", "M", "e", ",", "U", "S", "D">>,
     <<"2", "0", "2", "4", "-", "0", "2", "-", "0", "1", "\t", "\t", "T", "-",
       "B", "i", "l", "l", "\t", "7", "\t", "D", "a", "d", "\t", "E", ",", "U">> >>
TextIncome == Join(IncomeLines, <<"\n">>)

DataTexts == {TextOf(b) : b \in DataBatches}
ViewTexts == {TextOf(b) : b \in ViewBatches}
IncomeTexts == {TextOf(b) : b \in IncomeBatches}

\* the texts pasted in the runs of SpecAdmin
\* a text none of whose lines is staged
TextDropped == Join(<<RobustLines[1], RobustLines[4]>>, <<"\n">>)
AdminTexts == {TextOf(BatchMixed), TextRobust, TextDropped}
\* the first record of IncomeBatch received by another family member
IncomeBatchDad ==
  << Row(Jan31, DEFAULT_INCOME_CATEGORIES[1], <<"A", "c", "m", "e">>, 10, Dad, USD) >>
AdminIncomeTexts == {TextOf(IncomeBatch), TextIncome, TextOf(IncomeBatchDad)}

\* the names typed into the add forms of the settings: a registered name
\* between blanks, a new name, and blanks only
Gold == <<"G", "o", "l", "d">>
CategoryAdds == { <<" ">> \o Loan \o <<" ">>, Gold, <<" ", " ">> }
IncomeCategoryAdds == { DEFAULT_INCOME_CATEGORIES[3], Gold }
MemberAdds == { Dad, <<" ">> \o Me }
IncomeCategoryRenames == { <<DEFAULT_INCOME_CATEGORIES[1], DEFAULT_INCOME_CATEGORIES[2]>> }

\* the item lists a form is submitted with; the second has a row without a name
FormItemChoices ==
  { << Item(Bank, Chase, 100, USD) >>,
    << Item(Bank, Chase, 100, USD), Item(Loan, <<>>, 5, USD) >> }
FormDates == {Jan31}

\* the renames tried in the settings: <<oldName, newName>>
CategoryRenames == { <<Bank, Loan>>, <<Loan, <<"X">>>> }
MemberRenames == { <<Me, Dad>> }

----------------------------------------------------------------------------
(* The state *)

VARIABLES
  snapshots,        \* App: Snapshot[]
  categories,       \* App: the category registry
  familyMembers,    \* App: the member registry
  view,             \* App: ViewMode
  isFormOpen,       \* App
  editingSnapshot,  \* App: <<>> for null, else <<snapshot>>
  stagedItems,      \* bulk entry view: the staged rows (step 'review' when non-empty)
  incomeRecords,    \* App: IncomeRecord[]
  incomeCategories, \* App: the income category registry
  importType,       \* bulk entry view: 'snapshot' or 'income'
  stagedIncome,     \* bulk entry view: the staged income records
  dataSource,       \* pivot view: 'assets' or 'income'
  filterCategory,   \* the filter state of the mounted view
  filterMember,
  filterStartDate,
  filterEndDate,
  inputText,        \* bulk entry view: the pasted text
  downloads,        \* the files handed to the browser by the last export
  answer,           \* ghost: the last answer to window.confirm, "none" before any
  hist,             \* ghost: the bulk imports performed in succession, at most two
  ops               \* ghost: the number of operations performed on the data

vars == <<snapshots, categories, familyMembers, view, isFormOpen, editingSnapshot,
          stagedItems, incomeRecords, incomeCategories, importType, stagedIncome,
          dataSource, filterCategory, filterMember, filterStartDate, filterEndDate,
          inputText, downloads, answer, hist, ops>>

dataVars == <<snapshots, categories, familyMembers>>
incomeVars == <<incomeRecords, incomeCategories>>
stagedVars == <<stagedItems, stagedIncome, importType, inputText>>
boundaryVars == <<downloads, answer>>
filterVars == <<dataSource, filterCategory, filterMember, filterStartDate, filterEndDate>>

\* the bulk entry view is mounted with its useState defaults
StagedReset ==
  /\ stagedItems' = <<>>
  /\ stagedIncome' = <<>>
  /\ importType' = "snapshot"
  /\ inputText' = <<>>

\* a view is mounted with its useState defaults
FiltersReset ==
  /\ dataSource' = "assets"
  /\ filterCategory' = All
  /\ filterMember' = All
  /\ filterStartDate' = NoMonth
  /\ filterEndDate' = NoMonth

Init ==
  /\ snapshots = <<>>
  /\ categories = DEFAULT_CATEGORIES
  /\ familyMembers = DEFAULT_MEMBERS
  /\ view = "dashboard"
  /\ isFormOpen = FALSE
  /\ editingSnapshot = <<>>
  /\ stagedItems = <<>>
  /\ incomeRecords = <<>>
  /\ incomeCategories = DEFAULT_INCOME_CATEGORIES
  /\ importType = "snapshot"
  /\ stagedIncome = <<>>
  /\ dataSource = "assets"
  /\ filterCategory = All
  /\ filterMember = All
  /\ filterStartDate = NoMonth
  /\ filterEndDate = NoMonth
  /\ inputText = <<>>
  /\ downloads = <<>>
  /\ answer = "none"
  /\ hist = <<>>
  /\ ops = 0

----------------------------------------------------------------------------
(* The actions *)

\* handleNavClick; a view that is unmounted loses its local state
handleNavClick(mode) ==
  /\ view' = mode
  /\ isFormOpen' = FALSE
  /\ IF mode # view
     THEN StagedReset /\ FiltersReset
     ELSE UNCHANGED <<stagedVars, filterVars>>
  /\ UNCHANGED <<dataVars, incomeVars, editingSnapshot, hist, ops, boundaryVars>>

\* startNew; the form takes the place of the view
startNew ==
  /\ editingSnapshot' = <<>>
  /\ isFormOpen' = TRUE
  /\ StagedReset
  /\ FiltersReset
  /\ UNCHANGED <<dataVars, incomeVars, view, hist, ops, boundaryVars>>

\* startEdit, from a row of the history view
startEdit ==
  /\ view = "history"
  /\ ~isFormOpen
  /\ \E x \in DOMAIN snapshots : editingSnapshot' = <<snapshots[x]>>
  /\ isFormOpen' = TRUE
  /\ StagedReset
  /\ FiltersReset
  /\ UNCHANGED <<dataVars, incomeVars, view, hist, ops, boundaryVars>>

\* the options of the form's member select
FormMembers ==
  (IF familyMembers = <<>> THEN {Me} ELSE Range(familyMembers))
    \cup {editingSnapshot[x].familyMember : x \in DOMAIN editingSnapshot}

\* SnapshotForm.handleSubmit followed by handleSaveSnapshot
handleSubmit ==
  /\ isFormOpen
  /\ \E date \in FormDates, member \in FormMembers, items \in FormItemChoices :
       LET snapshot == SubmittedSnapshot(editingSnapshot, FreshId(snapshots),
                                         date, member, items, "")
       IN snapshots' = SavedSnapshots(snapshots, editingSnapshot, snapshot)
  /\ isFormOpen' = FALSE
  /\ editingSnapshot' = <<>>
  /\ hist' = <<>>
  /\ ops' = ops + 1
  /\ UNCHANGED <<categories, familyMembers, incomeVars, view, stagedVars, filterVars, boundaryVars>>

\* the form's Cancel button
onCancel ==
  /\ isFormOpen
  /\ isFormOpen' = FALSE
  /\ editingSnapshot' = <<>>
  /\ UNCHANGED <<dataVars, incomeVars, view, stagedVars, filterVars, hist, ops, boundaryVars>>

handleDeleteSnapshot ==
  /\ view = "history"
  /\ ~isFormOpen
  /\ dataSource = "assets"
  /\ \E x \in DOMAIN snapshots :
       snapshots' = SelectSeq(snapshots, LAMBDA s : s.id # snapshots[x].id)
  /\ hist' = <<>>
  /\ ops' = ops + 1
  /\ UNCHANGED <<categories, familyMembers, incomeVars, view, isFormOpen, editingSnapshot,
                 stagedVars, filterVars, boundaryVars>>

handleRenameCategory ==
  /\ view = "settings"
  /\ ~isFormOpen
  /\ \E r \in CategoryRenames :
     LET oldName == r[1]
         newName == r[2]
     IN
       /\ oldName \in Range(categories)
       /\ categories' = RenamedIn(categories, oldName, newName)
       /\ snapshots' = RenamedCategory(snapshots, oldName, newName)
  /\ hist' = <<>>
  /\ ops' = ops + 1
  /\ UNCHANGED <<familyMembers, incomeVars, view, isFormOpen, editingSnapshot,
                 stagedVars, filterVars, boundaryVars>>

handleRenameMember ==
  /\ view = "settings"
  /\ ~isFormOpen
  /\ \E r \in MemberRenames :
     LET oldName == r[1]
         newName == r[2]
     IN
       /\ oldName \in Range(familyMembers)
       /\ familyMembers' = RenamedIn(familyMembers, oldName, newName)
       /\ snapshots' = RenamedMember(snapshots, oldName, newName)
  /\ hist' = <<>>
  /\ ops' = ops + 1
  /\ UNCHANGED <<categories, incomeVars, view, isFormOpen, editingSnapshot,
                 stagedVars, filterVars, boundaryVars>>

\* the delete button of an income card of the history view:
\* onDeleteIncome(group.date, group.familyMember)
handleDeleteIncomeGroup ==
  /\ view = "history"
  /\ ~isFormOpen
  /\ dataSource = "income"
  /\ \E group \in cardGroups(filteredIncome(incomeRecords, filterCategory, filterMember,
                                             filterStartDate, filterEndDate)) :
       incomeRecords' = DeleteIncomeGroup(incomeRecords, group.date, group.familyMember)
  /\ hist' = <<>>
  /\ ops' = ops + 1
  /\ UNCHANGED <<dataVars, incomeCategories, view, isFormOpen, editingSnapshot,
                 stagedVars, filterVars, boundaryVars>>

\* handleRenameIncomeCategory, from saveEdit of the settings
handleRenameIncomeCategory ==
  /\ view = "settings"
  /\ ~isFormOpen
  /\ \E r \in IncomeCategoryRenames :
     LET oldName == r[1]
         newName == r[2]
     IN
       /\ oldName \in Range(incomeCategories)
       /\ incomeCategories' = RenamedIn(incomeCategories, oldName, newName)
       /\ incomeRecords' = RenamedIncomeCategory(incomeRecords, oldName, newName)
  /\ hist' = <<>>
  /\ ops' = ops + 1
  /\ UNCHANGED <<dataVars, view, isFormOpen, editingSnapshot, stagedVars, filterVars,
                 boundaryVars>>

\* handleAdd of the settings followed by handleAddCategory
handleAddCategory ==
  /\ view = "settings"
  /\ ~isFormOpen
  /\ \E newItem \in CategoryAdds :
       /\ Trim(newItem) # <<>>
       /\ categories' = AddedTo(categories, Trim(newItem))
  /\ hist' = <<>>
  /\ ops' = ops + 1
  /\ UNCHANGED <<snapshots, familyMembers, incomeVars, view, isFormOpen, editingSnapshot,
                 stagedVars, filterVars, boundaryVars>>

\* handleAdd of the settings followed by handleAddIncomeCategory
handleAddIncomeCategory ==
  /\ view = "settings"
  /\ ~isFormOpen
  /\ \E newItem \in IncomeCategoryAdds :
       /\ Trim(newItem) # <<>>
       /\ incomeCategories' = AddedTo(incomeCategories, Trim(newItem))
  /\ hist' = <<>>
  /\ ops' = ops + 1
  /\ UNCHANGED <<dataVars, incomeRecords, view, isFormOpen, editingSnapshot,
                 stagedVars, filterVars, boundaryVars>>

\* handleAdd of the settings followed by handleAddMember
handleAddMember ==
  /\ view = "settings"
  /\ ~isFormOpen
  /\ \E newItem \in MemberAdds :
       /\ Trim(newItem) # <<>>
       /\ familyMembers' = AddedTo(familyMembers, Trim(newItem))
  /\ hist' = <<>>
  /\ ops' = ops + 1
  /\ UNCHANGED <<snapshots, categories, incomeVars, view, isFormOpen, editingSnapshot,
                 stagedVars, filterVars, boundaryVars>>

\* handleExportData: the income file is built by a timer from the records
\* the click saw
handleExportData ==
  /\ view = "dataManagement"
  /\ ~isFormOpen
  /\ downloads' = exportedFiles(snapshots, incomeRecords)
  /\ UNCHANGED <<dataVars, incomeVars, view, isFormOpen, editingSnapshot, stagedVars,
                 filterVars, answer, hist, ops>>

\* handleDeleteAll: window.confirm, then handleClearAllData on a positive answer
handleDeleteAll ==
  /\ view = "dataManagement"
  /\ ~isFormOpen
  /\ \E confirmed \in BOOLEAN :
       LET r == AfterDeleteAll(confirmed,
                  [snapshots |-> snapshots, incomeRecords |-> incomeRecords,
                   categories |-> categories, incomeCategories |-> incomeCategories,
                   familyMembers |-> familyMembers])
       IN /\ answer' = IF confirmed THEN "accepted" ELSE "declined"
          /\ snapshots' = r.snapshots
          /\ incomeRecords' = r.incomeRecords
          /\ categories' = r.categories
          /\ incomeCategories' = r.incomeCategories
          /\ familyMembers' = r.familyMembers
  /\ hist' = <<>>
  /\ ops' = ops + 1
  /\ UNCHANGED <<view, isFormOpen, editingSnapshot, stagedVars, filterVars, downloads>>

\* the import type switch of the bulk entry view, shown at step 'input'
setImportType ==
  /\ view = "bulk"
  /\ ~isFormOpen
  /\ stagedItems = <<>> /\ stagedIncome = <<>>
  /\ \E type \in {"snapshot", "income"} : importType' = type
  /\ UNCHANGED <<dataVars, incomeVars, view, isFormOpen, editingSnapshot, stagedItems,
                 stagedIncome, inputText, filterVars, hist, ops, boundaryVars>>

\* a text is pasted and handleParse stages its rows
handleParse(texts, incomes) ==
  /\ view = "bulk"
  /\ ~isFormOpen
  /\ IF importType = "snapshot"
     THEN /\ \E text \in texts :
               /\ inputText' = text
               /\ stagedItems' = parsedItems(text, categories, familyMembers, Today)
          /\ UNCHANGED stagedIncome
     ELSE /\ \E text \in incomes :
               /\ inputText' = text
               /\ stagedIncome' = parsedIncome(text, familyMembers, Today)
          /\ UNCHANGED stagedItems
  /\ UNCHANGED <<dataVars, incomeVars, view, isFormOpen, editingSnapshot, importType,
                 filterVars, hist, ops, boundaryVars>>

\* doImport at step 'review': onImport(stagedItems), that is handleBulkImport,
\* or onImportIncome(stagedIncome), that is handleImportIncome
doImport ==
  /\ view = "bulk"
  /\ ~isFormOpen
  /\ IF importType = "snapshot"
     THEN /\ stagedItems # <<>>
          /\ LET r == handleBulkImport(snapshots, categories, familyMembers, stagedItems)
                 h == Append(hist, [rows |-> stagedItems, before |-> snapshots,
                                    after |-> r.snapshots])
             IN /\ snapshots' = r.snapshots
                /\ categories' = r.categories
                /\ familyMembers' = r.familyMembers
                /\ hist' = IF Len(h) > 2 THEN Tail(h) ELSE h
          /\ view' = "history"
          /\ UNCHANGED incomeVars
     ELSE /\ stagedIncome # <<>>
          /\ LET r == handleImportIncome(incomeRecords, incomeCategories, stagedIncome)
             IN /\ incomeRecords' = r.incomeRecords
                /\ incomeCategories' = r.incomeCategories
          /\ view' = "investmentIncome"
          /\ UNCHANGED <<dataVars, hist>>
  /\ ops' = ops + 1
  /\ StagedReset
  /\ UNCHANGED <<isFormOpen, editingSnapshot, filterVars, boundaryVars>>

\* the views that hold the four filter states
FilterViews == {"dashboard", "masterDatabase", "history"}

\* the months typed into the month inputs of the history view
HistoryMonths ==
  { <<"2", "0", "2", "3", "-", "1", "2">>, <<"2", "0", "2", "4", "-", "0", "1">>,
    <<"2", "0", "2", "4", "-", "0", "2">>, <<"2", "0", "2", "4", "-", "0", "3">> }

\* the data source toggle of the pivot view
setDataSource ==
  /\ view \in {"masterDatabase", "history"} /\ ~isFormOpen
  /\ \E source \in {"assets", "income"} : dataSource' = source
  /\ filterMember' = All
  /\ filterCategory' = All
  /\ UNCHANGED <<dataVars, incomeVars, view, isFormOpen, editingSnapshot, stagedVars,
                 filterStartDate, filterEndDate, hist, ops, boundaryVars>>

\* the options of the filter selects of the mounted view
\* (the history view lists the registries and takes any month)
CategoryOptions ==
  IF view = "history" THEN Range(categories)
  ELSE IF dataSource = "assets" THEN usedCategories(snapshots)
  ELSE incomeCategoriesUsed(incomeRecords)
MemberOptions ==
  IF view = "history" THEN Range(familyMembers)
  ELSE IF dataSource = "assets" THEN usedMembers(snapshots)
  ELSE incomeMembers(incomeRecords)
MonthOptions ==
  IF view = "history" THEN HistoryMonths
  ELSE IF dataSource = "assets" THEN usedMonths(snapshots)
  ELSE incomeMonths(incomeRecords)

setFilterCategory ==
  /\ view \in FilterViews /\ ~isFormOpen
  /\ \E c \in CategoryOptions \cup {All} : filterCategory' = c
  /\ UNCHANGED <<dataVars, incomeVars, view, isFormOpen, editingSnapshot, stagedVars,
                 dataSource, filterMember, filterStartDate, filterEndDate, hist, ops, boundaryVars>>

setFilterMember ==
  /\ view \in FilterViews /\ ~isFormOpen
  /\ \E m \in MemberOptions \cup {All} : filterMember' = m
  /\ UNCHANGED <<dataVars, incomeVars, view, isFormOpen, editingSnapshot, stagedVars,
                 dataSource, filterCategory, filterStartDate, filterEndDate, hist, ops, boundaryVars>>

setFilterStartDate ==
  /\ view \in FilterViews /\ ~isFormOpen
  /\ \E m \in MonthOptions \cup {NoMonth} : filterStartDate' = m
  /\ UNCHANGED <<dataVars, incomeVars, view, isFormOpen, editingSnapshot, stagedVars,
                 dataSource, filterCategory, filterMember, filterEndDate, hist, ops, boundaryVars>>

setFilterEndDate ==
  /\ view \in FilterViews /\ ~isFormOpen
  /\ \E m \in MonthOptions \cup {NoMonth} : filterEndDate' = m
  /\ UNCHANGED <<dataVars, incomeVars, view, isFormOpen, editingSnapshot, stagedVars,
                 dataSource, filterCategory, filterMember, filterStartDate, hist, ops, boundaryVars>>

----------------------------------------------------------------------------
(* Spec: the collection under forms, deletions, renames and bulk imports *)

NavData == \E mode \in {"history", "bulk", "settings"} : handleNavClick(mode)
ParseData == handleParse(DataTexts, IncomeTexts) /\ ops < MaxOps
ImportData == doImport /\ ops < MaxOps
SubmitData == handleSubmit /\ ops < MaxOps
DeleteData == handleDeleteSnapshot /\ ops < MaxOps
RenameCategoryData == handleRenameCategory /\ ops < MaxOps
RenameMemberData == handleRenameMember /\ ops < MaxOps

Next ==
  \/ NavData
  \/ startNew
  \/ startEdit
  \/ SubmitData
  \/ onCancel
  \/ DeleteData
  \/ RenameCategoryData
  \/ RenameMemberData
  \/ ParseData
  \/ ImportData

Spec == Init /\ [][Next]_vars

(* SpecView: imported collections seen through the Dashboard and the pivot *)

NavView == \E mode \in {"dashboard", "masterDatabase", "bulk"} : handleNavClick(mode)
ParseView == handleParse(ViewTexts, IncomeTexts) /\ ops < MaxViewImports
ImportView == doImport /\ ops < MaxViewImports

NextView ==
  \/ NavView
  \/ setImportType
  \/ ParseView
  \/ ImportView
  \/ setDataSource
  \/ setFilterCategory
  \/ setFilterMember
  \/ setFilterStartDate
  \/ setFilterEndDate

SpecView == Init /\ [][NextView]_vars

(* SpecAdmin: the registries, the parser, the export and the deletion of *)
(* all data                                                               *)

NavAdmin ==
  \E mode \in {"bulk", "settings", "dataManagement", "history"} : handleNavClick(mode)
ParseAdmin == handleParse(AdminTexts, AdminIncomeTexts) /\ ops < MaxOps
RenameIncomeCategoryData == handleRenameIncomeCategory /\ ops < MaxOps
AddCategoryData == handleAddCategory /\ ops < MaxOps
AddIncomeCategoryData == handleAddIncomeCategory /\ ops < MaxOps
AddMemberData == handleAddMember /\ ops < MaxOps
DeleteAllData == handleDeleteAll /\ ops < MaxOps
DeleteIncomeData == handleDeleteIncomeGroup /\ ops < MaxOps

NextAdmin ==
  \/ NavAdmin
  \/ setImportType
  \/ ParseAdmin
  \/ ImportData
  \/ AddCategoryData
  \/ AddIncomeCategoryData
  \/ AddMemberData
  \/ RenameCategoryData
  \/ RenameIncomeCategoryData
  \/ RenameMemberData
  \/ handleExportData
  \/ DeleteAllData
  \/ setDataSource
  \/ DeleteIncomeData

SpecAdmin == Init /\ [][NextAdmin]_vars

----------------------------------------------------------------------------
(* Derived data of the mounted views, and independent sums over the items *)

\* the Dashboard's memoized values in the current state
CD == chartData(snapshots, filterCategory, filterMember, filterStartDate, filterEndDate)
Grouped == groupedByDate(snapshots, filterCategory, filterMember, filterStartDate, filterEndDate)
Pie == pieDataInfo(snapshots, filterCategory, filterMember, filterStartDate, filterEndDate)

\* the pivot view's memoized values in the current state
Filtered ==
  IF dataSource = "assets"
  THEN filteredData(snapshots, filterCategory, filterMember, filterStartDate, filterEndDate)
  ELSE filteredIncome(incomeRecords, filterCategory, filterMember, filterStartDate, filterEndDate)
Columns ==
  IF dataSource = "assets" THEN columnHeaders(Filtered, filterCategory)
  ELSE incomeColumnHeaders(Filtered)
PivotRows ==
  IF dataSource = "assets" THEN rows(Filtered, filterCategory) ELSE incomeRows(Filtered)

\* references <<snapshot index, item index>> to the items of the collection
ItemRefs(snaps) ==
  UNION {{<<x, y>> : y \in DOMAIN snaps[x].items} : x \in DOMAIN snaps}
ItemAt(snaps, p) == snaps[p[1]].items[p[2]]
NormSum(snaps, P) ==
  SumSeq([x \in DOMAIN snaps |->
            SumSeq([y \in DOMAIN snaps[x].items |->
                      IF <<x, y>> \in P THEN Normalized(snaps[x].items[y]) ELSE 0])])

\* sum of f[x] over the finite set S of strings
SumSet(S, f) == LET sorted == SortStrings(S) IN SumSeq([k \in DOMAIN sorted |-> f[sorted[k]]])

CategoryPasses(i) == filterCategory = All \/ i.category = filterCategory

\* items whose snapshot passes the member and month-range filter and whose
\* category passes the category filter
PassingRefs ==
  {p \in ItemRefs(snapshots) :
     /\ PassesMemberAndRange(snapshots[p[1]], filterMember, filterStartDate, filterEndDate)
     /\ CategoryPasses(ItemAt(snapshots, p))}

\* the same, restricted to the date of the breakdown
LatestRefs == LET latest == Pie.date IN {p \in PassingRefs : snapshots[p[1]].date = latest}

\* the names of the breakdown with their aggregated normalized values
NameTotals ==
  LET refs == LatestRefs
      names == {PieName(ItemAt(snapshots, p)) : p \in refs}
  IN [n \in names |-> NormSum(snapshots, {p \in refs : PieName(ItemAt(snapshots, p)) = n})]

ValueSum(entries) == SumSeq([x \in DOMAIN entries |-> entries[x].value])
OriginalSum(entries) == SumSeq([x \in DOMAIN entries |-> entries[x].originalValue])

----------------------------------------------------------------------------
(* C1.  In every record of the time series, total equals the sum of the    *)
(* values stored under the keys other than 'date' and 'total'.             *)
C1_TotalIsSumOfKeys ==
  view = "dashboard" =>
    \A x \in DOMAIN CD :
      LET keys == (DOMAIN CD[x]) \ {KeyDate, KeyTotal}
      IN CD[x][KeyTotal].n = SumSet(keys, [k \in keys |-> CD[x][k].n])

(* C2.  The totals of the time series, summed over its dates, equal the    *)
(* normalized sum of the items that pass the filter: each item counts once. *)
C2_SeriesSumIsItemSum ==
  view = "dashboard" =>
    SumSeq([x \in DOMAIN CD |-> CD[x][KeyTotal].n]) = NormSum(snapshots, PassingRefs)

----------------------------------------------------------------------------
(* Bulk import, seen from the recorded imports: each element of hist holds *)
(* the staged rows and the collection before and after the import.         *)

KeyOf(s) == <<s.date, s.familyMember>>
StagedKeys(staged) == {<<r.date, r.familyMember>> : r \in Range(staged)}
HoldersOf(snaps, k) == {x \in DOMAIN snaps : KeyOf(snaps[x]) = k}
UniqueKeys(snaps) == \A x, y \in DOMAIN snaps : KeyOf(snaps[x]) = KeyOf(snaps[y]) => x = y

\* the staged rows of one key, in their order, as snapshot items
GroupRows(staged, k) == SelectSeq(staged, LAMBDA r : <<r.date, r.familyMember>> = k)
GroupAssets(staged, k) == [x \in DOMAIN GroupRows(staged, k) |-> AssetOf(GroupRows(staged, k)[x])]
RawSum(items) == SumSeq([x \in DOMAIN items |-> items[x].value])

(* C3.  From a collection with at most one snapshot per (date, member),    *)
(* importing the same staged rows twice in succession leaves exactly one   *)
(* snapshot per staged key, whose items are the rows of that key, and the  *)
(* second import does not change the number of snapshots.                  *)
C3_ImportTwiceIdempotent ==
  (Len(hist) = 2 /\ hist[1].rows = hist[2].rows /\ UniqueKeys(hist[1].before)) =>
    LET staged == hist[2].rows
        after == hist[2].after
    IN /\ \A k \in StagedKeys(staged) :
            /\ Cardinality(HoldersOf(after, k)) = 1
            /\ \A x \in HoldersOf(after, k) : after[x].items = GroupAssets(staged, k)
       /\ Len(after) = Len(hist[1].after)

(* C4.  A bulk import replaces the items and totalValue of the snapshot    *)
(* that holds a staged key, keeping its id, date, member and position;     *)
(* appends one snapshot for a staged key nobody holds; leaves every        *)
(* snapshot of another key unchanged; and removes none.                    *)
C4_ImportFrame ==
  \A h \in Range(hist) :
    LET staged == h.rows
        before == h.before
        after == h.after
        keys == StagedKeys(staged)
        newKeys == {k \in keys : HoldersOf(before, k) = {}}
    IN /\ Len(after) = Len(before) + Cardinality(newKeys)
       /\ \A x \in DOMAIN before :
            /\ after[x].id = before[x].id
            /\ KeyOf(after[x]) = KeyOf(before[x])
            /\ KeyOf(before[x]) \notin keys => after[x] = before[x]
       /\ \A k \in keys \ newKeys :
            \E x \in HoldersOf(before, k) :
              /\ after[x].items = GroupAssets(staged, k)
              /\ after[x].totalValue = RawSum(GroupAssets(staged, k))
       /\ \A k \in newKeys :
            /\ Cardinality(HoldersOf(after, k)) = 1
            /\ \A x \in HoldersOf(after, k) :
                 /\ x > Len(before)
                 /\ after[x].items = GroupAssets(staged, k)
                 /\ after[x].totalValue = RawSum(GroupAssets(staged, k))

(* C5.  Every snapshot's totalValue is the raw sum of the values of the    *)
(* items it holds.                                                         *)
C5_TotalValueIsRawSum ==
  \A x \in DOMAIN snapshots : snapshots[x].totalValue = RawSum(snapshots[x].items)

----------------------------------------------------------------------------
(* Breakdown *)

HasBreakdown == view = "dashboard" /\ Pie.date # NoDate

PositiveRefs == {p \in LatestRefs : ItemAt(snapshots, p).value > 0}
NegativeRefs == {p \in LatestRefs : ItemAt(snapshots, p).value < 0}

Positive(totals) == {n \in DOMAIN totals : totals[n] > 0}
Negative(totals) == {n \in DOMAIN totals : totals[n] < 0}

(* C6 as stated.  The values of the assets partition, Others included, sum *)
(* to the normalized sum of the items of positive value, and the original  *)
(* values of the liabilities partition to that of the items of negative    *)
(* value, whatever names the items share.                                   *)
C6_PartitionSumsBySign ==
  HasBreakdown =>
    LET pie == Pie
    IN /\ ValueSum(pie.assets) = NormSum(snapshots, PositiveRefs)
       /\ OriginalSum(pie.liabilities) = NormSum(snapshots, NegativeRefs)

(* C6, amended.  Items are netted per name first: the values of the assets *)
(* partition, Others included, sum to the sum of the per-name totals that  *)
(* are positive, and the original values of the liabilities partition to   *)
(* the sum of the per-name totals that are negative.                       *)
C6_PartitionSumsByName ==
  HasBreakdown =>
    LET totals == NameTotals
        pie == Pie
    IN /\ ValueSum(pie.assets) = SumSet(Positive(totals), totals)
       /\ OriginalSum(pie.liabilities) = SumSet(Negative(totals), totals)

\* a breakdown in which one name is held with a positive and with a negative value
C6_Witness ==
  /\ HasBreakdown
  /\ \E p \in PositiveRefs, q \in NegativeRefs :
       PieName(ItemAt(snapshots, p)) = PieName(ItemAt(snapshots, q))
  /\ Pie.assets # <<>>
  /\ Pie.liabilities # <<>>

(* C7.  Assets minus the magnitudes of the liabilities is the net          *)
(* normalized total of the items of the latest date that pass the category *)
(* filter, which is the total of the time series at that date.             *)
C7_NetIsSeriesTotal ==
  HasBreakdown =>
    LET pie == Pie
        grouped == Grouped
        net == ValueSum(pie.assets) - ValueSum(pie.liabilities)
    IN /\ net = NormSum(snapshots, LatestRefs)
       /\ \A x \in DOMAIN grouped :
            grouped[x].key = pie.date => grouped[x].rec[KeyTotal].n = net

(* C8.  A partition has at most eleven entries.  With more than ten names  *)
(* it is the ten of largest magnitude, in descending order, and one entry  *)
(* Others that carries the sum of the magnitudes (and, for liabilities,    *)
(* the signed sum) of the rest; with ten names or fewer no entry is added. *)
PartitionHolds(out, names, totals) ==
  LET head == IF Len(out) > TopN THEN TopN ELSE Len(out)
      kept == {out[x].name : x \in 1..head}
      rest == names \ kept
  IN /\ Len(out) <= TopN + 1
     /\ \A x \in 1..head :
          /\ out[x].name \in names
          /\ out[x].value = Abs(totals[out[x].name])
          /\ out[x].originalValue = totals[out[x].name]
          /\ \A y \in 1..head : x < y => out[x].value >= out[y].value
     /\ Cardinality(kept) = head
     /\ \A n \in rest : \A x \in 1..head : Abs(totals[n]) <= out[x].value
     /\ IF Cardinality(names) > TopN
        THEN /\ Len(out) = TopN + 1
             /\ out[TopN + 1].name = Others
             /\ out[TopN + 1].value = SumSet(rest, [n \in rest |-> Abs(totals[n])])
             /\ out[TopN + 1].originalValue = SumSet(rest, totals)
        ELSE Len(out) = Cardinality(names)

C8_TopTenAndOthers ==
  HasBreakdown =>
    LET totals == NameTotals
        pie == Pie
    IN /\ PartitionHolds(pie.assets, Positive(totals), totals)
       /\ PartitionHolds(pie.liabilities, Negative(totals), totals)

\* a breakdown with more than ten names on each side
C8_Witness ==
  /\ HasBreakdown
  /\ LET totals == NameTotals
         pie == Pie
     IN /\ Cardinality(Positive(totals)) > TopN
        /\ Cardinality(Negative(totals)) > TopN
        /\ pie.assets[Len(pie.assets)].name = Others
        /\ pie.liabilities[Len(pie.liabilities)].originalValue < 0

----------------------------------------------------------------------------
(* Pivot *)

CellRefs(refs, date, col) ==
  {p \in refs : snapshots[p[1]].date = date /\ ColumnKey(ItemAt(snapshots, p)) = col}

(* C9.  In the asset pivot a cell holds the normalized sum of the items of *)
(* its date and column; a date and column without items has no cell, in    *)
(* the row data and on the screen, where it reads otherwise than a cell    *)
(* whose items sum to zero.                                                *)
C9_CellsAndEmptyMarker ==
  (view = "masterDatabase" /\ dataSource = "assets") =>
    LET refs == PassingRefs
        pivot == PivotRows
        columns == Columns
    IN \A r \in DOMAIN pivot : \A c \in DOMAIN columns :
         LET cell == CellRefs(refs, pivot[r].date, columns[c])
         IN IF cell = {}
            THEN /\ columns[c] \notin DOMAIN pivot[r].values
                 /\ RenderCell(pivot[r], columns[c]).text = "-"
            ELSE /\ columns[c] \in DOMAIN pivot[r].values
                 /\ pivot[r].values[columns[c]] = NormSum(snapshots, cell)
                 /\ RenderCell(pivot[r], columns[c]).text # "-"

\* the normalized sum of the items, or of the income records, that pass the
\* filter and map to the column
DirectColumnSum(col) ==
  IF dataSource = "assets"
  THEN NormSum(snapshots, {p \in PassingRefs : ColumnKey(ItemAt(snapshots, p)) = col})
  ELSE SumSeq([x \in DOMAIN incomeRecords |->
                 IF /\ PassesMemberAndRange(incomeRecords[x], filterMember,
                                            filterStartDate, filterEndDate)
                    /\ CategoryPasses(incomeRecords[x])
                    /\ ColumnKey(incomeRecords[x]) = col
                 THEN Normalized(incomeRecords[x]) ELSE 0])

(* C10.  In the pivot of either data source a row total is the sum of the  *)
(* cells of the row, and the cells of a column sum to the normalized sum   *)
(* of the items passing the filter that map to the column.                 *)
C10_PivotTotalsAgree ==
  view = "masterDatabase" =>
    LET pivot == PivotRows
        columns == Columns
    IN /\ \A r \in DOMAIN pivot :
            pivot[r].total = SumSet(DOMAIN pivot[r].values, pivot[r].values)
       /\ \A c \in DOMAIN columns :
            SumSeq([r \in DOMAIN pivot |->
                      IF columns[c] \in DOMAIN pivot[r].values
                      THEN pivot[r].values[columns[c]] ELSE 0])
              = DirectColumnSum(columns[c])

\* the income records of a date that pass the filter, summed after conversion
IncomeNormSum(P) ==
  SumSeq([x \in DOMAIN incomeRecords |->
            IF x \in P THEN Normalized(incomeRecords[x]) ELSE 0])

PassingIncome ==
  {x \in DOMAIN incomeRecords :
     /\ PassesMemberAndRange(incomeRecords[x], filterMember, filterStartDate, filterEndDate)
     /\ CategoryPasses(incomeRecords[x])}

(* C11.  In the pivot over the income collection every cell is the sum of  *)
(* value times rate of the records of its date and column that pass the    *)
(* filter, and every row total is that sum over the records of its date.   *)
C11_IncomeCellsNormalized ==
  (view = "masterDatabase" /\ dataSource = "income") =>
    LET pivot == PivotRows
        passing == PassingIncome
    IN \A r \in DOMAIN pivot :
         /\ \A col \in DOMAIN pivot[r].values :
              pivot[r].values[col] =
                IncomeNormSum({x \in passing : /\ incomeRecords[x].date = pivot[r].date
                                               /\ ColumnKey(incomeRecords[x]) = col})
         /\ pivot[r].total =
              IncomeNormSum({x \in passing : incomeRecords[x].date = pivot[r].date})

----------------------------------------------------------------------------
(* Filter predicate *)

\* the predicate as a conjunction of the four conditions on a snapshot
AcceptedByFilter(s) ==
  /\ (filterMember = All \/ s.familyMember = filterMember)
  /\ (filterCategory = All \/ \E i \in DOMAIN s.items : s.items[i].category = filterCategory)
  /\ (filterStartDate = NoMonth \/ ~StrLess(s.date, filterStartDate \o <<"-", "0", "1">>))
  /\ (filterEndDate = NoMonth \/ ~StrLess(filterEndDate \o <<"-", "3", "1">>, s.date))

(* C12.  The history view lists, latest first, exactly the snapshots that  *)
(* satisfy: member filter 'All' or equal to the snapshot's member, category *)
(* filter 'All' or held by one of its items, date not below startMonth-01   *)
(* and not above endMonth-31 where these are set; the asset pivot is built  *)
(* from exactly the same snapshots, in collection order.                    *)
C12_FilterPredicate ==
  /\ view = "history" =>
       filteredSnapshots(snapshots, filterCategory, filterMember, filterStartDate, filterEndDate)
         = SelectSeq(sortedSnapshots(snapshots), AcceptedByFilter)
  /\ (view = "masterDatabase" /\ dataSource = "assets") =>
       Filtered = SelectSeq(snapshots, AcceptedByFilter)

\* the history view with a category selected that one snapshot of the month
\* range holds and another does not
C12_Witness ==
  /\ view = "history"
  /\ filterCategory # All
  /\ filterStartDate # NoMonth
  /\ \E x, y \in DOMAIN snapshots :
       /\ AcceptedByFilter(snapshots[x])
       /\ ~AcceptedByFilter(snapshots[y])
       /\ PassesMemberAndRange(snapshots[y], filterMember, filterStartDate, filterEndDate)

\* year * 12 + month of a text that starts with YYYY-MM
MonthIndex(m) ==
  (DigitValue(m[1]) * 1000 + DigitValue(m[2]) * 100 + DigitValue(m[3]) * 10 + DigitValue(m[4])) * 12
    + DigitValue(m[6]) * 10 + DigitValue(m[7])

\* the calendar month of the date lies in the closed range of months
InMonthRange(date, start, end) ==
  /\ (start = NoMonth \/ MonthIndex(start) <= MonthIndex(date))
  /\ (end = NoMonth \/ MonthIndex(date) <= MonthIndex(end))

(* C13.  For a snapshot with a well-formed date, the string comparisons    *)
(* against startMonth-01 and endMonth-31 of the Dashboard, the pivot and    *)
(* the history view accept the date exactly when its calendar month lies   *)
(* between the start month and the end month, both included.               *)
C13_RangeIsCalendarMonths ==
  view \in FilterViews =>
    \A x \in DOMAIN snapshots :
      LET s == snapshots[x] IN
      GetTime(Str(s.date, <<>>)) >= 0 =>
        /\ PassesMemberAndRange(s, All, filterStartDate, filterEndDate)
             <=> InMonthRange(s.date, filterStartDate, filterEndDate)
        /\ HistoryAccepts(s, All, All, filterStartDate, filterEndDate)
             <=> InMonthRange(s.date, filterStartDate, filterEndDate)

\* an end month whose 31st is the date of one snapshot, another snapshot
\* being dated the first of the next month
C13_Witness ==
  /\ view = "history"
  /\ filterEndDate # NoMonth
  /\ \E x, y \in DOMAIN snapshots :
       /\ snapshots[x].date = filterEndDate \o <<"-", "3", "1">>
       /\ MonthIndex(snapshots[y].date) = MonthIndex(filterEndDate) + 1
       /\ snapshots[y].date[9] = "0" /\ snapshots[y].date[10] = "1"

----------------------------------------------------------------------------
(* Currency normalization *)

\* the nine codes of the static table
TableCodes ==
  { USD, EUR, <<"G", "B", "P">>, <<"C", "A", "D">>, <<"A", "U", "D">>, <<"C", "N", "Y">>,
    <<"J", "P", "Y">>, <<"S", "G", "D">>, <<"I", "N", "R">> }

\* the Dashboard and the pivot normalize an item by the table
NormalizedByTable(i) ==
  LET code == ToUpperCase(i.currency)
  IN /\ code \in TableCodes =>
          /\ RATES(code) > 0
          /\ Normalized(i) = i.value * RATES(code)
     /\ code \notin TableCodes => Normalized(i) = i.value * One
     /\ PivotNormalized(i) = Normalized(i)
     /\ \A c \in Range(CurrencyCodes) :
          ToUpperCase(c) = code => Rate(c) = Rate(i.currency)

----------------------------------------------------------------------------
(* C15 *)

\* a step of doImport for importType 'snapshot', that is of handleBulkImport
BulkImportStep ==
  view = "bulk" /\ ~isFormOpen /\ importType = "snapshot" /\ ops' = ops + 1

\* C15: after handleBulkImport every non-blank category and every non-blank
\* familyMember of the staged rows is in the category registry and in the
\* member registry, and every entry either registry held before the import
\* is still in it.
C15_ImportGrowsRegistries ==
  [][BulkImportStep =>
       /\ \A x \in DOMAIN stagedItems :
            /\ Trim(stagedItems[x].category) # <<>>
                 => stagedItems[x].category \in Range(categories')
            /\ Trim(stagedItems[x].familyMember) # <<>>
                 => stagedItems[x].familyMember \in Range(familyMembers')
       /\ Range(categories) \subseteq Range(categories')
       /\ Range(familyMembers) \subseteq Range(familyMembers')]_vars

\* an import has added the category 'total' and the members 'A::B' and
\* 'A,B' to registries that still hold their defaults
C15_Witness ==
  /\ hist # <<>>
  /\ {KeyTotal, Bank, Loan} \subseteq Range(categories)
  /\ {Me, AB, <<"A", ",", "B">>} \subseteq Range(familyMembers)

----------------------------------------------------------------------------
(* C16 *)

\* no value at two places of the list
NoRepeat(list) == \A x, y \in DOMAIN list : list[x] = list[y] => x = y

\* C16: the category, income-category and member registries never hold the
\* same value twice, after any sequence of bulk imports, settings adds and
\* settings renames, a rename onto a registered name included.
C16_RegistriesHoldNoValueTwice ==
  /\ NoRepeat(categories)
  /\ NoRepeat(incomeCategories)
  /\ NoRepeat(familyMembers)

----------------------------------------------------------------------------
(* C17 *)

IsDigit(c) == c \in {"0", "1", "2", "3", "4", "5", "6", "7", "8", "9"}

\* what is left of a value column when every character except digits, '.'
\* and '-' is taken out
Stripped(v) == SelectSeq(v, LAMBDA c : IsDigit(c) \/ c = "." \/ c = "-")

\* t starts with a number: an optional '-', then a digit, or a point and a digit
HoldsNumber(t) ==
  LET b == IF t # <<>> /\ t[1] = "-" THEN Tail(t) ELSE t
  IN b # <<>> /\ (IsDigit(b[1]) \/ (b[1] = "." /\ Len(b) >= 2 /\ IsDigit(b[2])))

\* t has the form YYYY-MM-DD
IsIsoDate(t) ==
  /\ Len(t) = 10
  /\ t[5] = "-" /\ t[8] = "-"
  /\ \A k \in {1, 2, 3, 4, 6, 7, 9, 10} : IsDigit(t[k])

\* the value column of a row, blank when the row has three columns
ValueCol(cols) == IF Len(cols) >= 4 THEN cols[4] ELSE <<>>

\* the row is staged, as the claim has it: it has three columns and its
\* value column, if it has one, holds a number
KeptAsClaimed(row) ==
  LET cols == ColsOf(row)
  IN Len(cols) >= 3 /\ (Len(cols) < 4 \/ HoldsNumber(Stripped(cols[4])))

\* the row is staged: it has three columns and its value column is blank
\* or holds a number
Kept(row) ==
  LET cols == ColsOf(row)
  IN Len(cols) >= 3 /\ (ValueCol(cols) = <<>> \/ HoldsNumber(Stripped(ValueCol(cols))))

\* the staged rows are the rows of the text that Keep accepts, in the order
\* of the text; each has the date of its row, or the current date when that
\* is no date, and the value 0 when its value column is blank
StagedAre(Keep(_)) ==
  LET staged == IF importType = "snapshot" THEN stagedItems ELSE stagedIncome
      kept == SelectSeq(TextRows(inputText), Keep)
  IN /\ Len(staged) = Len(kept)
     /\ \A k \in DOMAIN staged \cap DOMAIN kept :
          LET cols == ColsOf(kept[k])
          IN /\ staged[k].date = IF IsIsoDate(cols[1]) THEN cols[1] ELSE Today
             /\ ValueCol(cols) = <<>> => staged[k].value = 0

\* C17 (as stated): handleParse never fails; a row with at least 3 columns
\* whose value column holds no parseable number after stripping is absent
\* from the staged output, a row whose date cannot be parsed but whose
\* value is parseable is staged with the current date, and every other row
\* is staged.
C17_RowsWithoutNumberAbsent == StagedAre(KeptAsClaimed)

\* C17 (amended): a row with at least 3 columns whose value column is not
\* blank and holds no parseable number after stripping is absent from the
\* staged output; a row with at least 3 columns whose value column is blank
\* or missing is staged with the value 0; a row that is staged and whose
\* date cannot be parsed has the current date; every other row with at
\* least 3 columns is staged, in the order of the text, and rows with fewer
\* columns are skipped.
C17_BlankValueStagedAsZero == StagedAre(Kept)

\* the five lines of TextRobust are parsed: three are staged, the first
\* with the current date, the second with the value 0
C17_Witness ==
  /\ inputText = TextRobust
  /\ Len(stagedItems) = 3
  /\ stagedItems[1].date = Today /\ stagedItems[1].value = 100
  /\ stagedItems[2].value = 0
  /\ stagedItems[3].value = -12

----------------------------------------------------------------------------
(* C18 *)

\* the category string of a row, after its default
CategoryString(cols) ==
  IF cols[2] # <<>> THEN cols[2]
  ELSE IF importType = "snapshot" THEN <<"O", "t", "h", "e", "r">>
  ELSE <<"I", "n", "c", "o", "m", "e">>

\* C18: for the asset import and for the income import, a row whose name
\* column is blank is staged with a name equal to the category string of
\* the row, after the category default.
C18_BlankNameTakesCategory ==
  LET staged == IF importType = "snapshot" THEN stagedItems ELSE stagedIncome
      kept == SelectSeq(TextRows(inputText), Kept)
  IN \A k \in DOMAIN staged \cap DOMAIN kept :
       LET cols == ColsOf(kept[k])
       IN cols[3] = <<>> => staged[k].name = CategoryString(cols)

----------------------------------------------------------------------------
(* C19 *)

\* the lines of an exported file below its header
DataLines(file) == Tail(Split(file.content, "\n"))

\* the files of the export named kind
FilesNamed(files, kind) == {f \in Range(files) : f.file = kind}

\* C19: every data row of a CSV export has exactly 6 columns when split at
\* commas, whatever the collection, and the export holds one row per item
\* of the snapshots and one row per income record.
C19_ExportRowsHaveSixColumns ==
  [][downloads' # downloads =>
       /\ \A f \in Range(downloads') :
            \A k \in DOMAIN DataLines(f) : Len(Split(DataLines(f)[k], ",")) = 6
       /\ \A f \in FilesNamed(downloads', "Asset_Snapshot") :
            Len(DataLines(f)) = Len(FlatItems(snapshots))
       /\ \A f \in FilesNamed(downloads', "Investment_Income") :
            Len(DataLines(f)) = Len(incomeRecords)]_vars

----------------------------------------------------------------------------
(* C20 *)

\* a step of handleDeleteAll
DeleteAllStep == view = "dataManagement" /\ ~isFormOpen /\ ops' = ops + 1

\* C20: the deletion of all data takes effect only after a positive
\* confirmation: when the confirmation is declined the snapshots, the
\* income records and the registries are unchanged; when it is accepted
\* the snapshots and the income records are empty and the three registries
\* equal their defaults.
C20_ClearOnlyWhenConfirmed ==
  [][DeleteAllStep =>
       IF answer' = "accepted"
       THEN /\ snapshots' = <<>>
            /\ incomeRecords' = <<>>
            /\ categories' = DEFAULT_CATEGORIES
            /\ incomeCategories' = DEFAULT_INCOME_CATEGORIES
            /\ familyMembers' = DEFAULT_MEMBERS
       ELSE /\ answer' = "declined"
            /\ UNCHANGED <<snapshots, incomeRecords, categories, incomeCategories,
                           familyMembers>>]_vars

\* an export has shown snapshots whose member is not a default member, the
\* deletion was then declined and the snapshots are still there
C20_Witness ==
  /\ answer = "declined"
  /\ snapshots # <<>>
  /\ familyMembers # DEFAULT_MEMBERS
  /\ FilesNamed(downloads, "Asset_Snapshot") # {}

----------------------------------------------------------------------------
(* C21 *)

\* the summary handleAnalyze hands to the commentary call in the current state
Summary ==
  summaryOf(analysedSnapshots(snapshots, filterMember),
            IF filterCategory = All THEN <<>> ELSE filterCategory)

\* the entry e is built from the snapshot s as the Dashboard shows it: the
\* items of the selected category, with normalized amounts
EntryMatches(e, s) ==
  LET its == SelectSeq(s.items, CategoryPasses)
  IN /\ e.date = s.date
     /\ e.total * One = SumSeq([y \in DOMAIN its |-> Normalized(its[y])])
     /\ Len(e.breakdown) = Len(its)
     /\ \A y \in DOMAIN its \cap DOMAIN e.breakdown :
          \E n \in {Normalized(its[y]) \div One} :
            /\ n * One = Normalized(its[y])
            /\ e.breakdown[y] = BreakdownLine([its[y] EXCEPT !.value = n])

\* C21: the data summary handed to the AI commentary call has at most 10
\* entries, built only from the snapshots that pass the Dashboard's member,
\* category and month-range filter, and the total and the breakdown amounts
\* of each entry are currency-normalized.
C21_SummaryMatchesDashboard ==
  view = "dashboard" =>
    LET passing == LastN(SelectSeq(snapshots, AcceptedByFilter), SummarySize)
        sent == Summary
    IN /\ Len(sent) <= SummarySize
       /\ Len(sent) = Len(passing)
       /\ \A k \in DOMAIN sent \cap DOMAIN passing : EntryMatches(sent[k], passing[k])

----------------------------------------------------------------------------
(* C22 *)

\* C22: the time series holds a record for a date only if a snapshot of
\* that date passes the snapshot filter predicate (member, category
\* presence, month range): with a category selected, a date on which no
\* snapshot holds an item of that category has no record.
C22_RecordOnlyForAcceptedDates ==
  view = "dashboard" =>
    \A g \in DOMAIN Grouped :
      \E x \in DOMAIN snapshots :
        snapshots[x].date = Grouped[g].key /\ AcceptedByFilter(snapshots[x])

----------------------------------------------------------------------------
(* C23 *)

\* the key of an item in a record of the time series
SeriesKey(i) == IF filterCategory = All THEN i.category ELSE i.name

\* the dates of the snapshots that pass the member and month-range tests
ContributingDates ==
  {snapshots[x].date :
     x \in {y \in DOMAIN snapshots :
              PassesMemberAndRange(snapshots[y], filterMember, filterStartDate, filterEndDate)}}

\* the collection of the example scenario
IsExampleCollection ==
  /\ Len(snapshots) = 2
  /\ snapshots[1].date = Jan01 /\ snapshots[2].date = Feb01
  /\ \A x \in {1, 2} : snapshots[x].familyMember = Me
  /\ snapshots[1].items = << Item(Bank, Chase, 1000, USD) >>
  /\ snapshots[2].items = << Item(Bank, Chase, 1200, USD) >>

\* the record {date, Bank: n, total: n}
ExampleRecord(date, n) ==
  Put(Put(Put(EmptyObject, KeyDate, Str(date, <<>>)), KeyTotal, Num(n * One)),
      Bank, Num(n * One))

\* C23: the time series has exactly one record per distinct date of the
\* contributing snapshots, in strictly ascending date order; the values of a
\* record are keyed by item category when the filter category is 'All' and
\* by item name when a category is selected; the two-snapshot example yields
\* 2024-01-01 with Bank 1000 and total 1000, then 2024-02-01 with Bank 1200
\* and total 1200.
C23_OneRecordPerDateAscending ==
  view = "dashboard" =>
    LET series == CD IN
    /\ Len(series) = Cardinality(ContributingDates)
    /\ \A k \in DOMAIN series :
         \E d \in ContributingDates : series[k][KeyDate] = Str(d, <<>>)
    /\ \A j, k \in DOMAIN series :
         j < k => StrLess(series[j][KeyDate].s, series[k][KeyDate].s)
    /\ \A k \in DOMAIN series :
         LET refs == {p \in PassingRefs : snapshots[p[1]].date = series[k][KeyDate].s}
             keys == {SeriesKey(ItemAt(snapshots, p)) : p \in refs}
         IN /\ (DOMAIN series[k]) \ {KeyDate, KeyTotal} = keys \ {KeyDate, KeyTotal}
            /\ \A key \in keys :
                 /\ key \in DOMAIN series[k]
                 /\ series[k][key] =
                      Num(NormSum(snapshots,
                                  {p \in refs : SeriesKey(ItemAt(snapshots, p)) = key}))
    /\ (IsExampleCollection /\ filterCategory = All /\ filterMember = All
          /\ filterStartDate = NoMonth /\ filterEndDate = NoMonth)
         => series = << ExampleRecord(Jan01, 1000), ExampleRecord(Feb01, 1200) >>

----------------------------------------------------------------------------
(* C24 *)

\* the snapshots that pass the member and month-range filter
PassingSnapshots ==
  {x \in DOMAIN snapshots :
     PassesMemberAndRange(snapshots[x], filterMember, filterStartDate, filterEndDate)}

\* the entries of the breakdown, without the collapsed remainders
PieEntries ==
  {e \in Range(Pie.assets) \cup Range(Pie.liabilities) : e.name # Others}

\* C24: the date of the breakdown is the greatest date among the snapshots
\* that pass the member and month-range filter, whatever the category
\* filter; every entry of the breakdown comes from the snapshots of that
\* date; when no snapshot passes, the breakdown has no assets, no
\* liabilities and no date.
C24_BreakdownOfLatestDate ==
  view = "dashboard" =>
    IF PassingSnapshots = {}
    THEN Pie = [assets |-> <<>>, liabilities |-> <<>>, date |-> NoDate]
    ELSE LET latest == CHOOSE d \in {snapshots[x].date : x \in PassingSnapshots} :
                         \A x \in PassingSnapshots : ~StrLess(d, snapshots[x].date)
             refs == {p \in PassingRefs : snapshots[p[1]].date = latest}
         IN /\ Pie.date = latest
            /\ \A c \in CategoryOptions \cup {All} :
                 pieDataInfo(snapshots, c, filterMember, filterStartDate,
                             filterEndDate).date = latest
            /\ \A e \in PieEntries :
                 LET from == {p \in refs : PieName(ItemAt(snapshots, p)) = e.name}
                 IN from # {} /\ e.originalValue = NormSum(snapshots, from)

\* a category is selected that snapshots of two dates hold: the breakdown
\* has the later date and its entries, and none for the name that only the
\* earlier date holds
C24_Witness ==
  /\ view = "dashboard"
  /\ filterCategory # All
  /\ Pie.date = Feb01
  /\ PieEntries # {}
  /\ \E p \in PassingRefs :
       /\ snapshots[p[1]].date # Feb01
       /\ \A e \in PieEntries : e.name # PieName(ItemAt(snapshots, p))

----------------------------------------------------------------------------
(* C25 *)

\* the entries of a partition before the collapsed remainder are in
\* non-increasing order of value, and the remainder 'Others' is the last one
OrderedWithOthersLast(part) ==
  /\ Len(part) <= TopN + 1
  /\ \A j, k \in DOMAIN part : (j < k /\ k <= TopN) => part[j].value >= part[k].value
  /\ Len(part) = TopN + 1 => part[Len(part)].name = Others

\* C25: in every breakdown each assets entry has value > 0 and originalValue
\* equal to value, each liabilities entry has originalValue < 0 and value
\* equal to the magnitude of originalValue (a single item of -300000 USD
\* yields one liability with value 300000 and originalValue -300000 and no
\* asset; checked on BatchDebt, the example at a tenth of its amount), no name aggregated to exactly zero is in either partition, and
\* in each partition the entries before the collapsed remainder 'Others'
\* are in non-increasing order of value, with 'Others', when present, last.
C25_PartitionShape ==
  view = "dashboard" =>
    LET pie == Pie
        totals == NameTotals
    IN /\ \A e \in Range(pie.assets) : e.value > 0 /\ e.originalValue = e.value
       /\ \A e \in Range(pie.liabilities) :
            e.originalValue < 0 /\ e.value = Abs(e.originalValue)
       /\ \A n \in DOMAIN totals :
            totals[n] = 0 =>
              \A e \in Range(pie.assets) \cup Range(pie.liabilities) : e.name # n
       /\ OrderedWithOthersLast(pie.assets)
       /\ OrderedWithOthersLast(pie.liabilities)
       /\ \A p \in LatestRefs :
            (LatestRefs = {p} /\ ItemAt(snapshots, p).value = -30000
               /\ ItemAt(snapshots, p).currency = USD)
            => /\ pie.assets = <<>>
               /\ pie.liabilities =
                    << [name |-> PieName(ItemAt(snapshots, p)), value |-> 30000 * One,
                        originalValue |-> (-30000) * One] >>

\* the breakdown of the single liability of BatchDebt
C25_Witness ==
  /\ view = "dashboard"
  /\ Pie.assets = <<>>
  /\ Len(Pie.liabilities) = 1
  /\ Pie.liabilities[1].value = 30000 * One
  /\ Pie.liabilities[1].originalValue = (-30000) * One

----------------------------------------------------------------------------
(* C26 *)

\* C26: after handleBulkImport, for every group of staged rows that share a
\* date and a familyMember the collection holds a snapshot with exactly
\* that date and that familyMember whose items are the rows of the group,
\* one for one, also when the familyMember holds the separator '::' of the
\* grouping key; two groups of different members are never written to the
\* same snapshot.
C26_GroupWrittenUnderItsKey ==
  \A h \in Range(hist) :
    LET keys == StagedKeys(h.rows)
    IN /\ \A k \in keys :
            \E x \in HoldersOf(h.after, k) : h.after[x].items = GroupAssets(h.rows, k)
       /\ \A k1, k2 \in keys :
            k1[2] # k2[2] =>
              \A x \in DOMAIN h.after :
                ~(x \in HoldersOf(h.after, k1) /\ x \in HoldersOf(h.after, k2))
       /\ Len(h.after) >= Cardinality(keys \cup {KeyOf(h.before[x]) : x \in DOMAIN h.before})

----------------------------------------------------------------------------
(* C27 *)

\* a step of doImport for importType 'income', that is of handleImportIncome
IncomeImportStep ==
  view = "bulk" /\ ~isFormOpen /\ importType = "income" /\ ops' = ops + 1

\* the elements of seq at the places S, in their order
SubSeqAt(seq, S) ==
  LET pick(k) == CHOOSE i \in S : Cardinality({j \in S : j < i}) = k - 1
  IN [k \in 1..Cardinality(S) |-> seq[pick(k)]]

SameFour(a, b) ==
  a.date = b.date /\ a.category = b.category /\ a.name = b.name /\ a.value = b.value

\* C27: handleImportIncome appends a staged income record unless an existing
\* record has the same date, category, name and value: a staged record that
\* an existing record equals is not appended (importing the same rows a
\* second time adds no record), and a staged record that differs from every
\* existing record in familyMember or currency is appended.
C27_IncomeAppendedUnlessPresent ==
  [][IncomeImportStep =>
       LET existing == Range(incomeRecords)
           mustAppend ==
             {k \in DOMAIN stagedIncome :
                \/ \A e \in existing : ~SameFour(stagedIncome[k], e)
                \/ \A e \in existing :
                     \/ e.familyMember # stagedIncome[k].familyMember
                     \/ e.currency # stagedIncome[k].currency}
           mustDrop == {k \in DOMAIN stagedIncome : stagedIncome[k] \in existing}
       IN \E kept \in SUBSET DOMAIN stagedIncome :
            /\ mustAppend \subseteq kept
            /\ mustDrop \cap kept = {}
            /\ incomeRecords' = incomeRecords \o SubSeqAt(stagedIncome, kept)]_vars


----------------------------------------------------------------------------
(* C28: deleting an income card *)

\* a step of the delete button of an income card
DeleteIncomeStep ==
  /\ view = "history" /\ dataSource = "income" /\ ~isFormOpen
  /\ ops' = ops + 1

\* the income cards shown in the current state
IncomeCards ==
  cardGroups(filteredIncome(incomeRecords, filterCategory, filterMember,
                            filterStartDate, filterEndDate))

\* the records left when exactly the records of one date and one family
\* member are removed, the others in their order
WithoutGroup(records, date, member) ==
  SelectSeq(records, LAMBDA r : ~(r.date = date /\ r.familyMember = member))

\* C28: deleting an income card, which shows the records of one date and one
\* family member, removes exactly the records of that date and that member
\* and leaves every other income record unchanged
C28_DeleteRemovesOneGroup ==
  [][DeleteIncomeStep =>
       \E group \in IncomeCards :
          incomeRecords' = WithoutGroup(incomeRecords, group.date, group.familyMember)]_vars


----------------------------------------------------------------------------
(* C29: renaming a family member or a category *)

\* a step of the settings that takes the name old out of a registry
RenameStep(registry, registryAfter, old) ==
  /\ view = "settings" /\ ~isFormOpen
  /\ ops' = ops + 1
  /\ old \in Range(registry)
  /\ old \notin Range(registryAfter)

\* the registry holds the name new wherever it held the name old, and is
\* otherwise as it was
InPlaceOf(registry, registryAfter, old, new) ==
  /\ Len(registryAfter) = Len(registry)
  /\ \A x \in DOMAIN registry :
       registryAfter[x] = IF registry[x] = old THEN new ELSE registry[x]

\* C29: after a family member is renamed, no snapshot and no income record
\* refers to the old name and every one that did refers to the new name;
\* after a category is renamed, no item of any snapshot keeps the old
\* category; in both cases the registry holds the new name in place of the
\* old one
C29_RenameReachesEveryRecord ==
  [][/\ \A r \in MemberRenames :
          RenameStep(familyMembers, familyMembers', r[1]) =>
            /\ InPlaceOf(familyMembers, familyMembers', r[1], r[2])
            /\ Len(snapshots') = Len(snapshots)
            /\ Len(incomeRecords') = Len(incomeRecords)
            /\ \A x \in DOMAIN snapshots :
                 /\ snapshots'[x].familyMember # r[1]
                 /\ snapshots[x].familyMember = r[1] => snapshots'[x].familyMember = r[2]
            /\ \A x \in DOMAIN incomeRecords :
                 /\ incomeRecords'[x].familyMember # r[1]
                 /\ incomeRecords[x].familyMember = r[1] =>
                      incomeRecords'[x].familyMember = r[2]
     /\ \A r \in CategoryRenames :
          RenameStep(categories, categories', r[1]) =>
            /\ InPlaceOf(categories, categories', r[1], r[2])
            /\ \A i \in Range(FlatItems(snapshots')) : i.category # r[1]]_vars


----------------------------------------------------------------------------
(* C30: the asset pivot and the Dashboard time series under one filter *)

\* the rows of the asset pivot for the filter of the current state
AssetPivotRows ==
  rows(filteredData(snapshots, filterCategory, filterMember, filterStartDate, filterEndDate),
       filterCategory)

\* C30: for the same collection and the same member, category and month-range
\* filter, every date that has a row in the asset pivot has a record in the
\* Dashboard time series, and the total of that row equals the total of
\* that record
C30_PivotRowMatchesSeries ==
  dataSource = "assets" =>
    \A r \in DOMAIN AssetPivotRows :
      \E x \in DOMAIN CD :
        /\ CD[x][KeyDate] = Str(AssetPivotRows[r].date, <<>>)
        /\ CD[x][KeyTotal] = Num(AssetPivotRows[r].total)

====
